---- MODULE Spec2Model ----
(***************************************************************************)
(* A model of the tree-walking evaluator of the JS-subset interpreter:     *)
(* the heap, the environment stack, Stmt::evaluate, Expr::evaluate and     *)
(* Interpreter::interpret.  Interned symbols (SymbolU32) are modelled by   *)
(* the strings they intern; f64 numbers by integers plus NaN / infinities. *)
(***************************************************************************)
EXTENDS Integers, Sequences, FiniteSets, TLC

\* ------------------------------------------------------------------------
\* Bounds of the model
\* ------------------------------------------------------------------------
MaxCalls == 2       \* interpret calls made on one Interpreter
MaxIter == 6        \* loop iterations and calls inside one top-level statement

\* stmt.rs:132  if abort_count > 100 { panic!("infinite loop") }
AbortLimit == 100

\* ------------------------------------------------------------------------
\* Option<T>
\* ------------------------------------------------------------------------
None == << >>
Some(x) == << x >>
IsSome(o) == o # << >>
Unwrap(o) == o[1]

\* ------------------------------------------------------------------------
\* JSValue (values/value.rs)
\* ------------------------------------------------------------------------
Undefined == [t |-> "Undefined"]
Null == [t |-> "Null"]
Boolean(b) == [t |-> "Boolean", data |-> b]
Number(n) == [t |-> "Number", cls |-> "Finite", data |-> n]
NaN == [t |-> "Number", cls |-> "NaN", data |-> 0]
Infinity == [t |-> "Number", cls |-> "PosInf", data |-> 0]
NegInfinity == [t |-> "Number", cls |-> "NegInf", data |-> 0]
String(s) == [t |-> "String", data |-> s]
Object(id, kind) == [t |-> "Object", object_id |-> id, kind |-> kind]

is_string(v) == v.t = "String"
is_number(v) == v.t = "Number"
is_object(v) == v.t = "Object"
is_undefined(v) == v.t = "Undefined"
is_null(v) == v.t = "Null"
is_boolean(v) == v.t = "Boolean"

\* JSValue::to_boolean
to_boolean(v) ==
    CASE v.t = "Boolean" -> v.data
      [] v.t \in {"Undefined", "Null"} -> FALSE
      [] v.t = "Number" -> ~(v.cls = "NaN" \/ (v.cls = "Finite" /\ v.data = 0))
      [] v.t = "String" -> v.data # ""
      [] OTHER -> TRUE

\* f64::to_string for the integral values of the model
Digit(d) ==
    CASE d = 0 -> "0" [] d = 1 -> "1" [] d = 2 -> "2" [] d = 3 -> "3"
      [] d = 4 -> "4" [] d = 5 -> "5" [] d = 6 -> "6" [] d = 7 -> "7"
      [] d = 8 -> "8" [] OTHER -> "9"

RECURSIVE DecStr(_)
DecStr(n) == IF n < 10 THEN Digit(n) ELSE DecStr(n \div 10) \o Digit(n % 10)

f64_to_string(x) ==
    CASE x.cls = "NaN" -> "NaN"
      [] x.cls = "PosInf" -> "inf"
      [] x.cls = "NegInf" -> "-inf"
      [] OTHER -> IF x.data < 0 THEN "-" \o DecStr(0 - x.data) ELSE DecStr(x.data)

\* str::parse::<f64> on the strings the model can produce
ParseRange == 0..20
string_to_number(s) ==
    IF \E n \in ParseRange : DecStr(n) = s
    THEN Number(CHOOSE n \in ParseRange : DecStr(n) = s)
    ELSE IF s \in {"inf", "Infinity", "infinity"} THEN Infinity
    ELSE NaN

\* values/number.rs
add(x, y) ==
    IF x.cls = "NaN" \/ y.cls = "NaN" THEN NaN
    ELSE IF x.cls = "PosInf" /\ y.cls = "NegInf" THEN NaN
    ELSE IF y.cls = "PosInf" /\ x.cls = "NegInf" THEN NaN
    ELSE IF x.cls # "Finite" THEN x
    ELSE IF y.cls # "Finite" THEN y
    ELSE Number(x.data + y.data)

unary_minus(x) ==
    CASE x.cls = "NaN" -> NaN
      [] x.cls = "PosInf" -> NegInfinity
      [] x.cls = "NegInf" -> Infinity
      [] OTHER -> Number(0 - x.data)

subtract(x, y) == add(x, unary_minus(y))

less_than(x, y) ==
    IF x.cls = "NaN" \/ y.cls = "NaN" THEN FALSE
    ELSE IF x = y THEN FALSE
    ELSE IF x.cls = "PosInf" THEN FALSE
    ELSE IF y.cls = "PosInf" THEN TRUE
    ELSE IF y.cls = "NegInf" THEN FALSE
    ELSE IF x.cls = "NegInf" THEN TRUE
    ELSE x.data < y.data

equal(x, y) ==
    IF x.cls = "NaN" \/ y.cls = "NaN" THEN FALSE ELSE x = y

\* ------------------------------------------------------------------------
\* JSError (errors.rs) and JSResult
\* ------------------------------------------------------------------------
JSError_new(message) == [kind |-> "Normal", id |-> 0, message |-> message]
JSError_new_break == [kind |-> "Break", id |-> 0, message |-> ""]
JSError_new_continue == [kind |-> "Continue", id |-> 0, message |-> ""]
JSError_new_return(id) == [kind |-> "Return", id |-> id, message |-> ""]
new_const_type_error ==
    [kind |-> "Normal", id |-> 0,
     message |-> "Uncaught TypeError: Assignment to constant variable."]
new_function_type_error(name) ==
    [kind |-> "Normal", id |-> 0,
     message |-> "Uncaught TypeError: " \o name \o " is not a function"]

Ok(v) == [ok |-> TRUE, panic |-> FALSE, value |-> v, error |-> JSError_new("")]
Err(e) == [ok |-> FALSE, panic |-> FALSE, value |-> Undefined, error |-> e]
\* a Rust panic!: unwinds through every caller, no handler of the evaluator sees it
Panic(message) ==
    [ok |-> FALSE, panic |-> TRUE, value |-> Undefined, error |-> JSError_new(message)]

\* ------------------------------------------------------------------------
\* Heap (heap.rs), Environment, Variable
\* ------------------------------------------------------------------------
EmptyMap == [s \in {} |-> 0]
MapInsert(h, k, v) == (k :> v) @@ h

Environment_new == [hv |-> "Environment", handles |-> EmptyMap]
Variable_new(mutable, value) ==
    [hv |-> "Variable", is_mutable |-> mutable, value |-> value]
HeapValue_new_value(val) == [hv |-> "Value", value |-> val]

\* Heap::default; added is the history of the add_* calls, in order: the kind
\* of each call and the id it returned
Heap_new == [map |-> EmptyMap, counter |-> 0, added |-> << >>]

\* Heap::add_to_map with Heap::get_next_id: the new heap and the id handed out
add_to_map(heap, value) ==
    [heap |-> [map |-> MapInsert(heap.map, heap.counter, value),
               counter |-> heap.counter + 1,
               added |-> Append(heap.added, [kind |-> value.hv, id |-> heap.counter])],
     id |-> heap.counter]

\* a lookup that does not match on the variant of the entry
heap_get_any(heap, kind, id) ==
    IF id \in DOMAIN heap.map THEN Some(heap.map[id]) ELSE None

\* Heap::get_environment, get_variable, get_value, get_object: Some(entry) when
\* the id is present with that kind, None for the not-found error
heap_get(heap, kind, id) ==
    IF id \in DOMAIN heap.map /\ heap.map[id].hv = kind
    THEN Some(heap.map[id]) ELSE None


\* ------------------------------------------------------------------------
\* Objects (values/objects/mod.rs)
\* ------------------------------------------------------------------------
\* ObjectProperty::new_from_value
new_from_value(value) ==
    [value |-> value, writable |-> TRUE, enumerable |-> TRUE, configurable |-> TRUE]
\* ObjectPropertyBuilder::build: unset attributes take bool::default()
build(value) ==
    [value |-> value, writable |-> FALSE, enumerable |-> FALSE, configurable |-> FALSE]

OrdinaryObject_new(properties, extensible, proto) ==
    [hv |-> "Object", shape |-> "Ordinary", extensible |-> extensible,
     prototype |-> proto, properties |-> properties]

FunctionObject_new(call, environment_id, proto_id, params) ==
    [hv |-> "Object", shape |-> "Function", call |-> call,
     environment_id |-> environment_id, prototype |-> Some(proto_id),
     formal_parameters |-> params, properties |-> EmptyMap]

\* ------------------------------------------------------------------------
\* Interpreter (lib.rs): operators on the interpreter state st
\*   st.environment_stack, st.heap, st.object_proto_id, st.function_proto_id,
\*   st.output_buffer, st.error_buffer
\* and on five history fields: st.log (the evaluation trace of the current
\* top-level statement), st.created (for every function object made by a
\* declaration, keyed by its own environment, the environment stack at that
\* moment), st.written (keyed the same way, the parameter list as written),
\* st.began (the lengths of the two buffers when the current interpret call
\* began) and st.fuel (iterations left before the model gives up)
\* ------------------------------------------------------------------------
Ret(st, r) == [st |-> st, r |-> r]

Top(stack) == stack[Len(stack)]

set_heap(st, h) == [st EXCEPT !.heap = h]

\* Interpreter::add_value / add_object / add_var: the new state and the id
heap_add(st, entry) ==
    LET a == add_to_map(st.heap, entry)
    IN  [st |-> set_heap(st, a.heap), id |-> a.id]

\* an enter_scope that puts the environment under the stack instead of on it
enter_scope_under(st, scope_id) ==
    IF IsSome(scope_id)
    THEN [st |-> [st EXCEPT !.environment_stack = <<Unwrap(scope_id)>> \o @],
          id |-> Unwrap(scope_id)]
    ELSE LET a == heap_add(st, Environment_new)
         IN  [st |-> [a.st EXCEPT !.environment_stack = <<a.id>> \o @],
              id |-> a.id]

\* Interpreter::enter_scope (with Interpreter::new_scope when scope_id is None)
enter_scope(st, scope_id) ==
    IF IsSome(scope_id)
    THEN [st |-> [st EXCEPT !.environment_stack = Append(@, Unwrap(scope_id))],
          id |-> Unwrap(scope_id)]
    ELSE LET a == heap_add(st, Environment_new)
         IN  [st |-> [a.st EXCEPT !.environment_stack = Append(@, a.id)],
              id |-> a.id]

\* Interpreter::leave_scope: Vec::pop, a no-op on an empty vector
leave_scope(st) ==
    IF Len(st.environment_stack) = 0 THEN st
    ELSE [st EXCEPT !.environment_stack = SubSeq(@, 1, Len(@) - 1)]

\* Interpreter::add_variable_to_current_environment
add_variable_to_current_environment(st, str_id, var_id) ==
    LET h == Top(st.environment_stack)
    IN  [st EXCEPT !.heap.map[h].handles = MapInsert(@, str_id, var_id)]

\* Interpreter::new_variable
new_variable(st, ident_id, is_mutable, value) ==
    LET a == heap_add(st, Variable_new(is_mutable, value))
    IN  add_variable_to_current_environment(a.st, ident_id, a.id)

\* The scan over self.environment_stack.iter().rev() shared by
\* get_value_from_environment and get_variable_from_current_environment:
\* the variable id bound to the name in the innermost environment binding it
scan_stack(st, str_id) ==
    LET stack == st.environment_stack
        hits == {i \in 1..Len(stack) : str_id \in DOMAIN st.heap.map[stack[i]].handles}
    IN  IF hits = {} THEN None
        ELSE LET top == CHOOSE i \in hits : \A j \in hits : j <= i
             IN  Some(st.heap.map[stack[top]].handles[str_id])

\* Interpreter::get_variable_from_current_environment
get_variable_from_current_environment(st, string_id) == scan_stack(st, string_id)

GLOBAL_THIS_NAME == "globalThis"

\* Interpreter::get_value_from_global_this
get_value_from_global_this(st, str_id) ==
    LET genv == st.heap.map[st.environment_stack[1]]
    IN  IF GLOBAL_THIS_NAME \notin DOMAIN genv.handles THEN None
        ELSE LET val == st.heap.map[genv.handles[GLOBAL_THIS_NAME]].value
             IN  IF val.t = "Object"
                    /\ IsSome(heap_get(st.heap, "Object", val.object_id))
                    /\ str_id \in DOMAIN st.heap.map[val.object_id].properties
                 THEN Some(st.heap.map[val.object_id].properties[str_id].value)
                 ELSE None

\* Interpreter::get_value_from_environment: Some(value), or None for the error
get_value_from_environment(st, str_id) ==
    LET v == scan_stack(st, str_id)
    IN  IF IsSome(v) THEN Some(st.heap.map[Unwrap(v)].value)
        ELSE get_value_from_global_this(st, str_id)

\* Interpreter::does_local_environment_already_have_variable
does_local_environment_already_have_variable(st, string_id) ==
    string_id \in DOMAIN st.heap.map[Top(st.environment_stack)].handles

\* Variable::update_value on the variable var_id
update_value(st, var_id, value) ==
    IF st.heap.map[var_id].is_mutable
    THEN Ret([st EXCEPT !.heap.map[var_id].value = value], Ok(Undefined))
    ELSE Ret(st, Err(new_const_type_error))

\* Interpreter::bind_variable; the unwrap() panics when no environment on the
\* stack binds the parameter
bind_variable(st, param_id, value) ==
    LET var == get_variable_from_current_environment(st, param_id)
    IN  IF ~IsSome(var) THEN Ret(st, Panic("called Result::unwrap() on an Err value"))
        ELSE update_value(st, Unwrap(var), value)


\* ------------------------------------------------------------------------
\* Conversions (values/value.rs).  Results are JSResults; to_string yields the
\* interned symbol, modelled by the string itself
\* ------------------------------------------------------------------------
\* OrdinaryObject::to_primitive is todo!() (ordinary.rs:218)
ordinary_to_primitive(obj) == Panic("not yet implemented")

\* FunctionObject::to_primitive: a function object has no valueOf / toString
\* property to dispatch to, so ToPrimitive fails with a TypeError
function_to_primitive(obj) == Err(new_function_type_error("unknown"))

\* JSObject::to_primitive
object_to_primitive(obj) ==
    IF obj.shape = "Function" THEN function_to_primitive(obj)
    ELSE ordinary_to_primitive(obj)

\* JSValue::to_primitive
to_primitive(st, v) ==
    IF v.t = "Object"
    THEN IF ~IsSome(heap_get(st.heap, "Object", v.object_id))
         THEN Err(JSError_new("Object not found"))
         ELSE object_to_primitive(st.heap.map[v.object_id])
    ELSE Ok(v)

\* JSValue::to_number
to_number(st, v) ==
    CASE v.t = "Null" -> Ok(Number(0))
      [] v.t = "Undefined" -> Ok(NaN)
      [] v.t = "Boolean" -> Ok(IF v.data THEN Number(1) ELSE Number(0))
      [] v.t = "String" -> Ok(string_to_number(v.data))
      [] v.t = "Number" -> Ok(v)
      [] OTHER -> to_primitive(st, v)   \* an object: its primitive never is a value here

\* JSValue::to_numeric
to_numeric(st, v) ==
    LET prim == to_primitive(st, v)
    IN  IF ~prim.ok THEN prim ELSE to_number(st, v)

\* JSValue::to_string
to_string(st, v) ==
    CASE v.t = "Null" -> Ok("null")
      [] v.t = "Undefined" -> Ok("undefined")
      [] v.t = "Boolean" -> Ok(IF v.data THEN "true" ELSE "false")
      [] v.t = "String" -> Ok(v.data)
      [] v.t = "Number" -> Ok(f64_to_string(v))
      [] OTHER -> to_primitive(st, v)

\* utils::remove_quotes_from_string, on the strings of the model: a string
\* literal is interned with its quotes, so it has the form 'chars'
Quoted(s) == "'" \o s \o "'"
StringBodies == {"", "a", "b", "ab", "x", "1", "x1", "c", "c1", "s", "u"}
\* The strings of the model that hold a quote character, each as the sequence
\* of its quote characters and of the pieces between them; every other string
\* of the model (a number's digits, a name) holds none.
QuoteCharacters == {"'", "\""}
Spellings ==
    {<<"'", b, "'">> : b \in StringBodies \ {""}}
        \cup {<<"'", "'">>, <<"\"", "it", "'", "s", "\"">>, <<"'", "itsx", "'">>}
RECURSIVE Join(_)
Join(pieces) == IF pieces = << >> THEN "" ELSE Head(pieces) \o Join(Tail(pieces))
Spelling(s) == CHOOSE pieces \in Spellings : Join(pieces) = s
IsPlain(piece) == piece \notin QuoteCharacters
\* the fold keeps every character that is neither ' nor "
remove_quotes_from_string(s) ==
    IF \E pieces \in Spellings : Join(pieces) = s
    THEN Join(SelectSeq(Spelling(s), IsPlain))
    ELSE s

\* JSValue::apply_string_or_numeric_binary_operator
apply_string_or_numeric_binary_operator(st, op, left, right) ==
    LET left_prim == IF op = "Plus" THEN to_primitive(st, left) ELSE Ok(left)
        right_prim == IF op = "Plus" THEN to_primitive(st, right) ELSE Ok(right)
    IN  IF ~left_prim.ok THEN left_prim
        ELSE IF ~right_prim.ok THEN right_prim
        ELSE IF op = "Plus" /\ (is_string(left_prim.value) \/ is_string(right_prim.value))
        THEN LET l == to_string(st, left_prim.value)
                 r == to_string(st, right_prim.value)
             IN  Ok(String(Quoted(remove_quotes_from_string(l.value)
                                  \o remove_quotes_from_string(r.value))))
        ELSE LET l == to_numeric(st, left_prim.value)
                 r == to_numeric(st, right_prim.value)
             IN  IF ~l.ok THEN l
                 ELSE IF ~r.ok THEN r
                 ELSE CASE op = "Plus" -> Ok(add(l.value, r.value))
                        [] op = "Minus" -> Ok(subtract(l.value, r.value))
                        [] op = "LessThan" -> Ok(Boolean(less_than(l.value, r.value)))
                        [] op = "LessThanOrEquals" ->
                             Ok(Boolean(less_than(l.value, r.value) \/ equal(l.value, r.value)))
                        [] op = "GreaterThan" -> Ok(Boolean(less_than(r.value, l.value)))
                        [] op = "GreaterThanOrEquals" ->
                             Ok(Boolean(less_than(r.value, l.value) \/ equal(l.value, r.value)))
                        [] OTHER -> Panic("the disco")

\* JSValue::compute_logical_and / compute_logical_or
compute_logical_and(v1, v2) == IF ~to_boolean(v1) THEN Ok(v1) ELSE Ok(v2)
compute_logical_or(v1, v2) == IF to_boolean(v1) THEN Ok(v1) ELSE Ok(v2)

\* Token::is_binary_operator
is_binary_operator(op) ==
    op \in {"Plus", "Minus", "Slash", "Star", "LessThan", "LessThanOrEquals",
            "GreaterThan", "GreaterThanOrEquals", "Percent"}


\* Interpreter::same_value_non_number
same_value_non_number(st, left, right) ==
    CASE left.t \in {"Null", "Undefined"} -> Ok(Boolean(TRUE))
      [] left.t = "Boolean" -> Ok(Boolean(left.data = to_boolean(right)))
      [] left.t = "String" ->
            LET r == to_string(st, right)
            IN  IF ~r.ok THEN r ELSE Ok(Boolean(left.data = r.value))
      [] OTHER -> Ok(Boolean(TRUE))

\* Interpreter::is_strictly_equal
is_strictly_equal(st, left, right) ==
    IF left.t # right.t THEN Ok(Boolean(FALSE))
    ELSE IF is_number(left) THEN Ok(Boolean(equal(left, right)))
    ELSE same_value_non_number(st, left, right)

\* Interpreter::is_loosely_equal
RECURSIVE is_loosely_equal(_, _, _)
\* the comparison without the conversion of a Boolean right operand
is_loosely_equal_left_only(st, left, right) ==
    IF left.t = right.t THEN is_strictly_equal(st, left, right)
    ELSE IF is_null(left) /\ is_undefined(right) THEN Ok(Boolean(TRUE))
    ELSE IF is_undefined(left) /\ is_null(right) THEN Ok(Boolean(TRUE))
    ELSE IF is_number(left) /\ is_string(right)
    THEN is_loosely_equal(st, left, to_number(st, right).value)
    ELSE IF is_string(left) /\ is_number(right)
    THEN is_loosely_equal(st, to_number(st, left).value, right)
    ELSE IF is_boolean(left)
    THEN is_loosely_equal(st, to_number(st, left).value, right)
    ELSE IF (is_string(left) \/ is_number(left)) /\ is_object(right)
    THEN LET prim == to_primitive(st, right)
         IN  IF ~prim.ok THEN prim ELSE is_loosely_equal(st, left, prim.value)
    ELSE IF (is_string(right) \/ is_number(right)) /\ is_object(left)
    THEN LET prim == to_primitive(st, right)
         IN  IF ~prim.ok THEN prim ELSE is_loosely_equal(st, prim.value, right)
    ELSE Ok(Boolean(FALSE))

is_loosely_equal(st, left, right) ==
    IF left.t = right.t THEN is_strictly_equal(st, left, right)
    ELSE IF is_null(left) /\ is_undefined(right) THEN Ok(Boolean(TRUE))
    ELSE IF is_undefined(left) /\ is_null(right) THEN Ok(Boolean(TRUE))
    ELSE IF is_number(left) /\ is_string(right)
    THEN is_loosely_equal(st, left, to_number(st, right).value)
    ELSE IF is_string(left) /\ is_number(right)
    THEN is_loosely_equal(st, to_number(st, left).value, right)
    ELSE IF is_boolean(left)
    THEN is_loosely_equal(st, to_number(st, left).value, right)
    ELSE IF is_boolean(right)
    THEN is_loosely_equal(st, left, to_number(st, right).value)
    ELSE IF (is_string(left) \/ is_number(left)) /\ is_object(right)
    THEN LET prim == to_primitive(st, right)
         IN  IF ~prim.ok THEN prim ELSE is_loosely_equal(st, left, prim.value)
    ELSE IF (is_string(right) \/ is_number(right)) /\ is_object(left)
    THEN LET prim == to_primitive(st, right)     \* lib.rs:405 converts right, not left
         IN  IF ~prim.ok THEN prim ELSE is_loosely_equal(st, prim.value, right)
    ELSE Ok(Boolean(FALSE))

\* JSValue::compute_equality
is_equality_operator(op) ==
    op \in {"EqualEqual", "EqualEqualEqual", "NotEqual", "NotEqualEqual"}

Negate(r) == IF ~r.ok THEN r ELSE Ok(Boolean(~r.value.data))

compute_equality(st, operator, lhs, rhs) ==
    CASE operator = "EqualEqual" -> is_loosely_equal(st, lhs, rhs)
      [] operator = "EqualEqualEqual" -> is_strictly_equal(st, lhs, rhs)
      [] operator = "NotEqual" -> Negate(is_loosely_equal(st, lhs, rhs))
      [] OTHER -> Negate(is_strictly_equal(st, lhs, rhs))

\* ------------------------------------------------------------------------
\* The syntax trees: Expr (expr.rs:22) and Stmt (stmt.rs:15)
\* ------------------------------------------------------------------------
new_literal(value) == [e |-> "Literal", value |-> value]
new_identifier(name) == [e |-> "Identifier", string_index |-> name]
new_grouping(expr) == [e |-> "Grouping", expr |-> expr]
new_unary(operator, right) == [e |-> "Unary", operator |-> operator, right |-> right]
new_binary(operator, left, right) ==
    [e |-> "Binary", operator |-> operator, left |-> left, right |-> right]
new_assignment(identifier, right) ==
    [e |-> "Assignment", identifier |-> identifier, right |-> right]
new_function_call(identifier, arguments) ==
    [e |-> "FunctionCall", identifier |-> identifier, arguments |-> arguments]
new_function_decl(identifier, arguments, body) ==
    [e |-> "FunctionDecl", identifier |-> identifier, arguments |-> arguments,
     body |-> body]
new_object_call(expr, identifier) ==
    [e |-> "ObjectCall", identifier |-> identifier, expr |-> expr]
new_print_expr(kind) == [e |-> "PrintExpr", kind |-> kind]

new_block(stmts) == [s |-> "Block", stmts |-> stmts]
Stmt_Break == [s |-> "Break"]
Stmt_Continue == [s |-> "Continue"]
new_expression(expr) == [s |-> "Expression", expr |-> expr]
new_for(init, cond, state, body) ==
    [s |-> "For", initializer |-> init, condition |-> cond, state |-> state,
     body |-> body]
new_function(ident, args, body) ==
    [s |-> "FunctionDecl", identifier |-> ident, arguments |-> args, body |-> body]
new_if(condition, branch_true, branch_false) ==
    [s |-> "If", condition |-> condition, branch_true |-> branch_true,
     branch_false |-> branch_false]
new_return(expr) == [s |-> "Return", expr |-> expr]
new_variable_stmt(is_mutable, ident, initializer) ==
    [s |-> "VariableDecl", is_mutable |-> is_mutable, identifier |-> ident,
     initializer |-> initializer]
new_while(condition, body) == [s |-> "While", condition |-> condition, body |-> body]


\* ------------------------------------------------------------------------
\* Expr::evaluate (expr.rs:144) and Stmt::evaluate (stmt.rs:106).
\* Every operator maps a tree and an interpreter state to Ret(state', result).
\* ------------------------------------------------------------------------
RECURSIVE Expr_evaluate(_, _)
RECURSIVE Stmt_evaluate(_, _)
RECURSIVE evaluate_arguments(_, _, _, _)
RECURSIVE get_function_params(_, _, _, _)
RECURSIVE Block_statements(_, _, _)
RECURSIVE For_turns(_, _, _)
RECURSIVE While_turns(_, _, _)
RECURSIVE bind_parameters(_, _, _, _)
RECURSIVE declare_parameters(_, _, _)
RECURSIVE FunctionObject_call(_, _, _)

Log(st, event) == [st EXCEPT !.log = Append(@, event)]

\* the model stops following an evaluation that exceeds MaxIter iterations
OutOfFuel == Panic("model bound reached")
Burn(st) == [st EXCEPT !.fuel = @ - 1]

\* What one turn of a loop comes to: the loop is left with the outcome
\* Ret(st, r), or it goes round again from the state st
Done(out) == [done |-> TRUE, out |-> out, abort_count |-> 0]
Again(abort_count, st) ==
    [done |-> FALSE, out |-> Ret(st, Ok(Undefined)), abort_count |-> abort_count]

\* Expr::Unary (expr.rs:147-189): the operator applied to the evaluated operand
Unary_apply(e, o) ==
    IF ~o.r.ok THEN o
    ELSE CASE e.operator = "Bang" -> Ret(o.st, Ok(Boolean(~to_boolean(o.r.value))))
           [] e.operator = "Minus" ->
                LET n == to_numeric(o.st, o.r.value)
                IN  Ret(o.st, IF ~n.ok THEN n ELSE Ok(unary_minus(n.value)))
           [] e.operator = "Plus" -> Ret(o.st, to_numeric(o.st, o.r.value))
           [] e.operator = "Void" -> Ret(o.st, Ok(Undefined))
           [] e.operator = "Typeof" ->
                Ret(o.st,
                    Ok(String(
                      CASE o.r.value.t = "Null" -> "object"
                        [] o.r.value.t = "Undefined" -> "undefined"
                        [] o.r.value.t = "Boolean" -> "boolean"
                        [] o.r.value.t = "String" -> "string"
                        [] o.r.value.t = "Number" -> "number"
                        [] OTHER ->
                             IF o.st.heap.map[o.r.value.object_id].shape = "Function"
                             THEN "function" ELSE "object")))
           [] OTHER -> Ret(o.st, Panic("Invalid unary operation"))

evaluate_Unary(e, st) == Unary_apply(e, Expr_evaluate(e.right, st))

\* Expr::Binary (expr.rs:196-220): both operands are evaluated, left then
\* right, before the operator is looked at
Binary_apply(e, left, r) ==
    IF ~r.r.ok THEN r
    ELSE IF is_equality_operator(e.operator)
    THEN Ret(r.st, compute_equality(r.st, e.operator, left, r.r.value))
    ELSE IF is_binary_operator(e.operator)
    THEN Ret(r.st, apply_string_or_numeric_binary_operator(
                       r.st, e.operator, left, r.r.value))
    ELSE IF e.operator = "LogicalOr"
    THEN Ret(r.st, compute_logical_or(left, r.r.value))
    ELSE IF e.operator = "LogicalAnd"
    THEN Ret(r.st, compute_logical_and(left, r.r.value))
    ELSE Ret(r.st, Panic("Unhandled operator"))

Binary_right(e, l) ==
    IF ~l.r.ok THEN l
    ELSE Binary_apply(e, l.r.value, Expr_evaluate(e.right, l.st))

evaluate_Binary(e, st) == Binary_right(e, Expr_evaluate(e.left, st))

\* JSObject::get_property / get_property_mut: Some(property) or None; on a
\* function object it is todo!() (values/objects/mod.rs:163-177)
HasProperty(obj, key) == obj.shape = "Ordinary" /\ key \in DOMAIN obj.properties

\* The object-property branch of an assignment (expr.rs:223-237).  returned
\* tells whether the branch returned from evaluate; when it did not, out.st is
\* the state in which control falls through to the identifier branch
Returned(out) == [returned |-> TRUE, out |-> out]
FallThrough(st) == [returned |-> FALSE, out |-> Ret(st, Ok(Undefined))]

\* expr.rs:227-236, from the evaluated property name on
property_store(rhs, oid, a) ==
    IF ~a.r.ok THEN Returned(a)
    ELSE LET key == to_string(a.st, a.r.value)
         IN  IF ~key.ok THEN Returned(Ret(a.st, key))
             ELSE IF ~IsSome(heap_get(a.st.heap, "Object", oid))
             THEN Returned(Ret(a.st, Err(JSError_new("Object not found"))))
             ELSE IF a.st.heap.map[oid].shape = "Function"
             THEN Returned(Ret(a.st, Panic("not yet implemented")))
             ELSE IF HasProperty(a.st.heap.map[oid], key.value)
             THEN Returned(Ret([a.st EXCEPT
                              !.heap.map[oid].properties[key.value].value = rhs],
                           Ok(rhs)))
             ELSE FallThrough(a.st)

\* expr.rs:224-226, from the evaluated object expression on
property_object(e, rhs, o) ==
    IF ~o.r.ok THEN Returned(o)
    ELSE IF ~is_object(o.r.value) THEN FallThrough(o.st)
    ELSE property_store(rhs, o.r.value.object_id,
                        Expr_evaluate(e.identifier.identifier, o.st))

assignment_to_property(e, st, rhs) ==
    IF e.identifier.e # "ObjectCall" THEN FallThrough(st)
    ELSE property_object(e, rhs, Expr_evaluate(e.identifier.expr, st))

\* The identifier branch of an assignment (expr.rs:238-256)
assignment_to_identifier(e, st, rhs) ==
    IF e.identifier.e # "Identifier"
    THEN Ret(st, Err(JSError_new("Invalid left-hand side in assignment")))
    ELSE LET ident_index == e.identifier.string_index
             exists == get_variable_from_current_environment(st, ident_index)
         IN  IF IsSome(exists)
             THEN IF st.heap.map[Unwrap(exists)].is_mutable
                  THEN LET u == update_value(st, Unwrap(exists), rhs)
                       IN  Ret(u.st, IF u.r.ok THEN Ok(rhs) ELSE u.r)
                  ELSE Ret(st, Err(JSError_new(
                           "Syntax error: Cannot assign to constant variable")))
             ELSE Ret(st, Ok(String(ident_index)))

\* Expr::Assignment (expr.rs:221-257): the right-hand side first, then the
\* property branch, then the identifier branch
Assignment_identifier(e, rhs, p) ==
    IF p.returned THEN p.out
    ELSE assignment_to_identifier(e, p.out.st, rhs)

Assignment_store(e, r) ==
    IF ~r.r.ok THEN r
    ELSE Assignment_identifier(e, r.r.value, assignment_to_property(e, r.st, r.r.value))

evaluate_Assignment(e, st) == Assignment_store(e, Expr_evaluate(e.right, st))

\* Expr::Identifier (expr.rs:259-265): an unresolved name evaluates to the
\* sentinel string carrying the name
evaluate_Identifier(e, st) ==
    LET exists == get_value_from_environment(st, e.string_index)
    IN  IF IsSome(exists) THEN Ret(st, Ok(Unwrap(exists)))
        ELSE Ret(st, Ok(String(e.string_index)))


\* the closure arguments.into_iter().map(|arg| arg.evaluate(..)).collect()
\* (expr.rs:270-276): left to right, stopping at the first error
arguments_next(arguments, i, acc, o) ==
    IF ~o.r.ok THEN o
    ELSE evaluate_arguments(arguments, i + 1, o.st, Append(acc, o.r.value))

evaluate_arguments(arguments, i, st, acc) ==
    IF i > Len(arguments) THEN Ret(st, Ok(acc))
    ELSE arguments_next(arguments, i, acc, Expr_evaluate(arguments[i], st))

\* OrdinaryObject::call(name): an ordinary object is not callable
OrdinaryObject_call(name) == Err(new_function_type_error(name))

\* JSObject::call (values/objects/mod.rs:150-161)
JSObject_call(obj, args, name, st) ==
    IF obj.shape = "Function" THEN FunctionObject_call(obj, args, st)
    ELSE IF ~IsSome(name)
    THEN Ret(st, Panic("called Option::unwrap() on a None value"))
    ELSE Ret(st, OrdinaryObject_call(Unwrap(name)))

\* Expr::FunctionCall (expr.rs:266-295): the arguments are evaluated first,
\* then the callee expression
FunctionCall_call(args, c) ==
    IF ~c.r.ok THEN c
    ELSE IF c.r.value.t = "String"
    THEN LET found == get_value_from_environment(c.st, c.r.value.data)
         IN  IF ~IsSome(found)
             THEN Ret(c.st, Err(JSError_new("Variable not found in environment")))
             ELSE IF ~is_object(Unwrap(found))
             THEN Ret(c.st, Err(JSError_new("Expected object")))
             ELSE JSObject_call(c.st.heap.map[Unwrap(found).object_id],
                                args, Some(c.r.value.data), c.st)
    ELSE IF c.r.value.t = "Object"
    THEN IF c.r.value.kind = "Function"
         THEN JSObject_call(c.st.heap.map[c.r.value.object_id], args, None, c.st)
         ELSE Ret(c.st, Panic("Attempting to call an ordinary object"))
    ELSE Ret(c.st, Panic("Attempting to call something that should not be called"))

FunctionCall_callee(e, args) ==
    IF ~args.r.ok THEN args
    ELSE FunctionCall_call(args.r.value, Expr_evaluate(e.identifier, args.st))

evaluate_FunctionCall(e, st) ==
    FunctionCall_callee(e, evaluate_arguments(e.arguments, 1, st, << >>))

\* Expr::ObjectCall (expr.rs:304-353)
ObjectCall_get(key, i) ==
    IF ~i.r.ok THEN i
    ELSE IF i.r.value.t = "Object"
    THEN IF HasProperty(i.st.heap.map[i.r.value.object_id], key)
         THEN Ret(i.st, Ok(i.st.heap.map[i.r.value.object_id].properties[key].value))
         ELSE Ret(i.st, Panic("called Option::unwrap() on a None value"))
    ELSE IF i.r.value.t = "String"
    THEN LET found == get_value_from_environment(i.st, i.r.value.data)
         IN  IF ~IsSome(found)
             THEN Ret(i.st, Err(JSError_new("Unitialized variable: " \o i.r.value.data)))
             ELSE IF is_object(Unwrap(found))
             THEN IF HasProperty(i.st.heap.map[Unwrap(found).object_id], key)
                  THEN Ret(i.st, Ok(i.st.heap.map[Unwrap(found).object_id]
                                        .properties[key].value))
                  ELSE Ret(i.st, Panic("called Option::unwrap() on a None value"))
             ELSE Ret(i.st, Err(JSError_new("Object called with invalid property")))
    ELSE IF i.r.value.t = "Number"
    THEN Ret(i.st, Err(JSError_new("Object called with invalid property")))
    ELSE Ret(i.st, Panic("not implemented"))

ObjectCall_identifier(e, x) ==
    IF ~x.r.ok THEN x
    ELSE LET key == to_string(x.st, x.r.value)
         IN  IF ~key.ok THEN Ret(x.st, key)
             ELSE ObjectCall_get(key.value, Expr_evaluate(e.identifier, x.st))

evaluate_ObjectCall(e, st) == ObjectCall_identifier(e, Expr_evaluate(e.expr, st))

\* utils::get_function_params (utils.rs:24-36): every parameter expression is
\* evaluated and the value converted with to_string
params_next(args, i, acc, o) ==
    IF ~o.r.ok THEN o
    ELSE LET name == to_string(o.st, o.r.value)
         IN  IF ~name.ok THEN Ret(o.st, name)
             ELSE get_function_params(args, i + 1, o.st, Append(acc, name.value))

get_function_params(args, i, st, acc) ==
    IF i > Len(args) THEN Ret(st, Ok(acc))
    ELSE params_next(args, i, acc, Expr_evaluate(args[i], st))

\* for param in &parameters { interpreter.new_variable(*param, true, Undefined) }
declare_parameters(parameters, i, st) ==
    IF i > Len(parameters) THEN st
    ELSE declare_parameters(parameters, i + 1,
                            new_variable(st, parameters[i], TRUE, Undefined))

\* JSObject::new_function_object (values/objects/mod.rs:52-62)
new_function_object(call, params, environment_id, st) ==
    heap_add(st, FunctionObject_new(call, environment_id, st.function_proto_id, params))

\* history: the environment stack at the creation of the function object
\* whose own environment is id
Created(st, id, stack) == [st EXCEPT !.created = MapInsert(@, id, stack)]

\* The construction shared by Stmt::FunctionDecl (stmt.rs:165-179) and
\* Expr::FunctionDecl (expr.rs:364-378), from the evaluated name on: the result
\* carries the function value
function_value(obj, ident_id, scope_id, stack) ==
    Ret(new_variable(Created(obj.st, scope_id, stack), ident_id, FALSE,
                     Object(obj.id, "Function")),
        Ok(Object(obj.id, "Function")))

function_object(ident_id, body, scope_id, stack, parameters) ==
    IF ~parameters.r.ok THEN parameters
    ELSE function_value(
             new_function_object(body, parameters.r.value, scope_id,
                 leave_scope(declare_parameters(parameters.r.value, 1, parameters.st))),
             ident_id, scope_id, stack)

\* history: the parameter list written in the declaration of the function
\* object whose own environment is id
Declares(st, id, arguments) == [st EXCEPT !.written = MapInsert(@, id, arguments)]

function_scope(ident_id, arguments, body, stack, scope) ==
    function_object(ident_id, body, scope.id, stack,
                    get_function_params(arguments, 1,
                                        Declares(scope.st, scope.id, arguments), << >>))

declare_function(ident, arguments, body, st) ==
    LET ident_id == to_string(st, ident)
    IN  IF ~ident_id.ok THEN Ret(st, ident_id)
        ELSE function_scope(ident_id.value, arguments, body, st.environment_stack,
                            enter_scope(st, None))

\* Expr::FunctionDecl (expr.rs:354-382)
FunctionDecl_declare(e, i) ==
    IF ~i.r.ok THEN i
    ELSE declare_function(i.r.value, e.arguments, e.body, i.st)

evaluate_FunctionDecl(e, st) ==
    IF IsSome(e.identifier)
    THEN FunctionDecl_declare(e, Expr_evaluate(Unwrap(e.identifier), st))
    ELSE FunctionDecl_declare(e, Ret(st, Ok(Undefined)))


\* add_message (expr.rs:413-430).  A buffer is the sequence of the pieces
\* pushed onto it; format!("{message}\n") pushes the message and the newline
strip_quotes(message) ==
    IF \E b \in StringBodies : Quoted(b) = message
    THEN CHOOSE b \in StringBodies : Quoted(b) = message
    ELSE message

\* the message pushed as it is, without the newline of the format!
add_message_bare(message, kind, st) ==
    IF kind = "Log"
    THEN [st EXCEPT !.output_buffer = @ \o <<strip_quotes(message)>>]
    ELSE [st EXCEPT !.error_buffer = @ \o <<strip_quotes(message)>>]

add_message(message, kind, st) ==
    IF kind = "Log"
    THEN [st EXCEPT !.output_buffer = @ \o <<strip_quotes(message), "\n">>]
    ELSE [st EXCEPT !.error_buffer = @ \o <<strip_quotes(message), "\n">>]

\* Expr::PrintExpr (expr.rs:383-408): the body of console.log / console.error
evaluate_PrintExpr(e, st) ==
    LET variable == get_variable_from_current_environment(st, "data")
        value == st.heap.map[Unwrap(variable)].value
        str == to_string(st, value)
        maybe_val == get_value_from_environment(st, str.value)
        inner == to_string(st, Unwrap(maybe_val))
    IN  IF ~IsSome(variable) THEN Ret(st, Ok(Undefined))
        ELSE IF ~str.ok THEN Ret(st, str)
        ELSE IF IsSome(maybe_val)
        THEN IF ~inner.ok THEN Ret(st, inner)
             ELSE Ret(add_message(inner.value, e.kind, st), Ok(Undefined))
        ELSE Ret(add_message(str.value, e.kind, st), Ok(Undefined))

\* Expr::evaluate (expr.rs:144-410); the two Log steps record the evaluation
Expr_match(e, s0) ==
    CASE e.e = "Literal" -> Ret(s0, Ok(e.value))
      [] e.e = "Unary" -> evaluate_Unary(e, s0)
      [] e.e = "Binary" -> evaluate_Binary(e, s0)
      [] e.e = "Assignment" -> evaluate_Assignment(e, s0)
      [] e.e = "Grouping" -> Expr_evaluate(e.expr, s0)
      [] e.e = "Identifier" -> evaluate_Identifier(e, s0)
      [] e.e = "FunctionCall" -> evaluate_FunctionCall(e, s0)
      [] e.e = "ObjectCall" -> evaluate_ObjectCall(e, s0)
      [] e.e = "FunctionDecl" -> evaluate_FunctionDecl(e, s0)
      [] e.e = "PrintExpr" -> evaluate_PrintExpr(e, s0)
      [] OTHER -> Ret(s0, Panic("not yet implemented"))

Expr_result(e, out) == Ret(Log(out.st, [ev |-> "expr", node |-> e, r |-> out.r]), out.r)

Expr_evaluate(e, st) == Expr_result(e, Expr_match(e, Log(st, [ev |-> "begin", node |-> e])))

\* Binding of the formal parameters at a call: missing arguments are
\* Undefined, extra arguments are dropped
bind_next(params, args, i, b) ==
    IF ~b.r.ok THEN b
    ELSE bind_parameters(params, args, i + 1, b.st)

bind_parameters(params, args, i, st) ==
    IF i > Len(params) THEN Ret(st, Ok(Undefined))
    ELSE bind_next(params, args, i,
                   bind_variable(st, params[i],
                                 IF i <= Len(args) THEN args[i] ELSE Undefined))

\* FunctionObject::call(args, interpreter), the function call protocol:
\* push the captured environment, push a fresh environment, bind the
\* parameters, evaluate the body, pop both environments on every exit;
\* Return(value_id) yields the heap value, a normal end yields Undefined
call_popped(body, popped) ==
    IF body.r.panic THEN body
    ELSE IF body.r.ok THEN Ret(popped, Ok(Undefined))
    ELSE IF body.r.error.kind = "Return"
    THEN Ret(popped, Ok(popped.heap.map[body.r.error.id].value))
    ELSE Ret(popped, body.r)

call_return(body) ==
    call_popped(body, Log(leave_scope(leave_scope(body.st)), [ev |-> "return"]))

call_body(obj, args, stack, b) ==
    IF ~b.r.ok THEN call_return(b)
    ELSE call_return(Stmt_evaluate(obj.call,
                         Log(b.st, [ev |-> "call", function |-> obj, args |-> args,
                                    stack |-> stack])))

FunctionObject_call(obj, args, st) ==
    IF st.fuel = 0 THEN Ret(st, OutOfFuel)
    ELSE call_body(obj, args, st.environment_stack,
                   bind_parameters(obj.formal_parameters, args, 1,
                       enter_scope(enter_scope(Burn(st), Some(obj.environment_id)).st,
                                   None).st))


\* The statements of a block in order; the ? operator returns at the first
\* statement that does not complete normally (stmt.rs:110-113)
Block_next(stmts, i, o) ==
    IF ~o.r.ok THEN o
    ELSE Block_statements(stmts, i + 1, o.st)

Block_statements(stmts, i, st) ==
    IF i > Len(stmts) THEN Ret(st, Ok(Undefined))
    ELSE Block_next(stmts, i, Stmt_evaluate(stmts[i], st))

\* Stmt::Block (stmt.rs:108-116)
Block_leave(b) ==
    IF ~b.r.ok THEN b
    ELSE Ret(leave_scope(b.st), Ok(Undefined))

evaluate_Block(s, st) ==
    Block_leave(Block_statements(s.stmts, 1, enter_scope(st, None).st))

\* The loop 'forst (stmt.rs:131-154).  The step expression is evaluated
\* before the body's result is looked at; a body result other than Break and
\* Continue is dropped.  A Continue does not count towards abort_count, so
\* that path is the one bounded by the fuel
For_next(s, abort_count, body_r, step) ==
    IF ~step.r.ok THEN Done(step)
    ELSE IF ~body_r.ok /\ body_r.error.kind = "Break"
    THEN Done(Ret(step.st, Ok(Undefined)))
    ELSE IF ~body_r.ok /\ body_r.error.kind = "Continue"
    THEN IF step.st.fuel = 0 THEN Done(Ret(step.st, OutOfFuel))
         ELSE Again(abort_count, Burn(step.st))
    ELSE Again(abort_count + 1, step.st)

For_state(s, abort_count, body_res) ==
    IF body_res.r.panic THEN Done(body_res)
    ELSE IF IsSome(s.state)
    THEN For_next(s, abort_count, body_res.r,
                  Expr_evaluate(Unwrap(s.state), body_res.st))
    ELSE For_next(s, abort_count, body_res.r, Ret(body_res.st, Ok(Undefined)))

For_body(s, abort_count, c) ==
    IF ~c.r.ok THEN Done(c)
    ELSE IF ~to_boolean(c.r.value) THEN Done(Ret(c.st, Ok(Undefined)))
    ELSE For_state(s, abort_count, Stmt_evaluate(s.body, c.st))

\* one turn of the loop
For_loop(s, abort_count, st) ==
    IF abort_count > AbortLimit THEN Done(Ret(st, Panic("infinite loop")))
    ELSE IF IsSome(s.condition)
    THEN For_body(s, abort_count, Expr_evaluate(Unwrap(s.condition), st))
    ELSE For_body(s, abort_count, Ret(st, Ok(Boolean(TRUE))))

\* The turns of the loop until it is left, of which there are at most n:
\* the first half of them, then the rest.  (Halving keeps the depth of the
\* evaluation logarithmic in the number of turns.)
For_turns(s, turn, n) ==
    IF turn.done THEN turn
    ELSE IF n <= 1 THEN For_loop(s, turn.abort_count, turn.out.st)
    ELSE For_turns(s, For_turns(s, turn, n \div 2), n - (n \div 2))

\* every turn but the last adds to abort_count, which ends the loop when it
\* is past AbortLimit, or uses fuel
For_run(s, st) == For_turns(s, Again(0, st), AbortLimit + st.fuel + 2).out

\* Stmt::For (stmt.rs:120-158)
For_leave(l) ==
    IF ~l.r.ok THEN l
    ELSE Ret(leave_scope(l.st), Ok(Undefined))

For_start(s, i) ==
    IF ~i.r.ok THEN i
    ELSE For_leave(For_run(s, i.st))

evaluate_For(s, st) ==
    IF IsSome(s.initializer)
    THEN For_start(s, Stmt_evaluate(Unwrap(s.initializer), enter_scope(st, None).st))
    ELSE For_start(s, Ret(enter_scope(st, None).st, Ok(Undefined)))

\* Stmt::FunctionDecl (stmt.rs:159-182)
FunctionDeclStmt_done(d) == IF ~d.r.ok THEN d ELSE Ret(d.st, Ok(Undefined))

FunctionDeclStmt_declare(s, ident) ==
    IF ~ident.r.ok THEN ident
    ELSE FunctionDeclStmt_done(
             declare_function(ident.r.value, s.arguments, s.body, ident.st))

evaluate_FunctionDeclStmt(s, st) ==
    FunctionDeclStmt_declare(s, Expr_evaluate(s.identifier, st))

\* Stmt::If (stmt.rs:183-199): only the path that takes no branch reaches
\* leave_scope
If_branch(s, c) ==
    IF ~c.r.ok THEN c
    ELSE IF to_boolean(c.r.value)
    THEN Stmt_evaluate(s.branch_true, enter_scope(c.st, None).st)
    ELSE IF IsSome(s.branch_false)
    THEN Stmt_evaluate(Unwrap(s.branch_false), enter_scope(c.st, None).st)
    ELSE Ret(leave_scope(enter_scope(c.st, None).st), Ok(Undefined))

evaluate_If(s, st) == If_branch(s, Expr_evaluate(s.condition, st))

\* Stmt::Return (stmt.rs:200-210)
Return_raise(res) ==
    IF ~res.r.ok THEN res
    ELSE LET a == heap_add(res.st, HeapValue_new_value(res.r.value))
         IN  Ret(a.st, Err(JSError_new_return(a.id)))

evaluate_Return(s, st) ==
    IF IsSome(s.expr) THEN Return_raise(Expr_evaluate(Unwrap(s.expr), st))
    ELSE Return_raise(Ret(st, Ok(Undefined)))

\* Stmt::VariableDecl (stmt.rs:211-249)
VariableDecl_bind(s, rhs) ==
    IF ~rhs.r.ok THEN rhs
    ELSE Ret(new_variable(rhs.st, s.identifier.string_index, s.is_mutable, rhs.r.value),
             Ok(Undefined))

evaluate_VariableDecl(s, st) ==
    IF s.identifier.e # "Identifier"
    THEN Ret(st, Err(JSError_new("Identifier expected")))
    ELSE IF does_local_environment_already_have_variable(st, s.identifier.string_index)
    THEN Ret(st, Err(JSError_new("SyntaxError: redeclaration of "
                                 \o (IF s.is_mutable THEN "let" ELSE "const")
                                 \o " " \o s.identifier.string_index)))
    ELSE IF IsSome(s.initializer)
    THEN VariableDecl_bind(s, Expr_evaluate(Unwrap(s.initializer), st))
    ELSE IF ~s.is_mutable
    THEN Ret(st, Err(JSError_new(
             "Uncaught SyntaxError: Missing initializer in const declaration")))
    ELSE VariableDecl_bind(s, Ret(st, Ok(Undefined)))

\* Stmt::While (stmt.rs:250-269), the loop 'whilst: a body result other than
\* Break and Continue is dropped and the loop goes on
While_next(s, body_res) ==
    IF body_res.r.panic THEN Done(body_res)
    ELSE IF ~body_res.r.ok /\ body_res.r.error.kind = "Break"
    THEN Done(Ret(body_res.st, Ok(Undefined)))
    ELSE Again(0, body_res.st)

While_body(s, c) ==
    IF ~c.r.ok THEN Done(c)
    ELSE IF ~to_boolean(c.r.value) THEN Done(Ret(c.st, Ok(Undefined)))
    ELSE IF c.st.fuel = 0 THEN Done(Ret(c.st, OutOfFuel))
    ELSE While_next(s, Stmt_evaluate(s.body, Burn(c.st)))

\* one turn of the loop
While_loop(s, st) == While_body(s, Expr_evaluate(s.condition, st))

\* the turns of the loop until it is left, of which there are at most n
While_turns(s, turn, n) ==
    IF turn.done THEN turn
    ELSE IF n <= 1 THEN While_loop(s, turn.out.st)
    ELSE While_turns(s, While_turns(s, turn, n \div 2), n - (n \div 2))

\* every turn but the last uses fuel
While_run(s, st) == While_turns(s, Again(0, st), st.fuel + 1).out

\* The body of the built-in isFinite: ToNumber of the argument, then whether
\* the number is finite
Stmt_IsFinite == [s |-> "IsFinite"]
evaluate_IsFinite(s, st) ==
    LET variable == get_variable_from_current_environment(st, "data")
        n == to_number(st, st.heap.map[Unwrap(variable)].value)
        a == heap_add(st, HeapValue_new_value(Boolean(n.value.t = "Number"
                                                      /\ n.value.cls = "Finite")))
    IN  IF ~IsSome(variable) THEN Ret(st, Ok(Undefined))
        ELSE IF ~n.ok THEN Ret(st, n)
        ELSE Ret(a.st, Err(JSError_new_return(a.id)))

\* Stmt::evaluate (stmt.rs:106-271); the two Log steps record the evaluation
\* and the environment stack on entry and on exit
Stmt_match(s, s0) ==
    CASE s.s = "Block" -> evaluate_Block(s, s0)
      [] s.s = "Break" -> Ret(s0, Err(JSError_new_break))
      [] s.s = "Continue" -> Ret(s0, Err(JSError_new_continue))
      [] s.s = "Expression" -> Expr_evaluate(s.expr, s0)
      [] s.s = "For" -> evaluate_For(s, s0)
      [] s.s = "FunctionDecl" -> evaluate_FunctionDeclStmt(s, s0)
      [] s.s = "If" -> evaluate_If(s, s0)
      [] s.s = "Return" -> evaluate_Return(s, s0)
      [] s.s = "VariableDecl" -> evaluate_VariableDecl(s, s0)
      [] s.s = "While" -> While_run(s, s0)
      [] s.s = "IsFinite" -> evaluate_IsFinite(s, s0)

Stmt_result(s, before, out) ==
    Ret(Log(out.st, [ev |-> "exit", node |-> s, r |-> out.r, before |-> before,
                     after |-> out.st.environment_stack]),
        out.r)

Stmt_evaluate(s, st) ==
    Stmt_result(s, st.environment_stack,
                Stmt_match(s, Log(st, [ev |-> "enter", node |-> s,
                                       stack |-> st.environment_stack])))



\* ------------------------------------------------------------------------
\* Interpreter::new and Interpreter::setup (lib.rs:44-67)
\* ------------------------------------------------------------------------
\* JSObject::create_object_proto
create_object_proto == OrdinaryObject_new(EmptyMap, TRUE, None)

\* JSObject::create_function_proto with FunctionObject::new_proto
create_function_proto(env_id, proto_id) ==
    FunctionObject_new(new_block(<< >>), env_id, proto_id, << >>)

\* Interpreter::new
Interpreter_new ==
    LET p == add_to_map(Heap_new, create_object_proto)
        e == add_to_map(p.heap, Environment_new)
        f == add_to_map(e.heap, create_function_proto(e.id, p.id))
    IN  [environment_stack |-> <<e.id>>,
         heap |-> f.heap,
         object_proto_id |-> p.id,
         function_proto_id |-> f.id,
         output_buffer |-> << >>,
         error_buffer |-> << >>,
         log |-> << >>,
         created |-> EmptyMap,
         written |-> EmptyMap,
         began |-> [out |-> 0, err |-> 0],
         fuel |-> MaxIter]

\* A built-in function object of one parameter, data, declared in the
\* function's own environment (FunctionObject::create_log, create_error,
\* create_is_finite)
create_built_in(body, st) ==
    LET sc == enter_scope(st, None)
        declared == leave_scope(new_variable(sc.st, "data", TRUE, Undefined))
    IN  [st |-> declared,
         obj |-> FunctionObject_new(body, sc.id, st.function_proto_id, <<"data">>)]
create_log(st) == create_built_in(new_expression(new_print_expr("Log")), st)
create_error(st) == create_built_in(new_expression(new_print_expr("Error")), st)
create_is_finite(st) == create_built_in(Stmt_IsFinite, st)

\* JSObject::new_built_in_fn (values/objects/mod.rs:196-210), given the
\* outcome c of the constructor f(interpreter)
new_built_in_fn(c) ==
    LET a == heap_add(c.st, c.obj)
    IN  [st |-> a.st, value |-> Object(a.id, "Function")]

\* JSObject::create_global_object (values/objects/mod.rs:80-121)
create_global_object(st) ==
    LET is_finite == new_built_in_fn(create_is_finite(st))
        log == new_built_in_fn(create_log(is_finite.st))
        error == new_built_in_fn(create_error(log.st))
        console == heap_add(error.st,
                            OrdinaryObject_new(
                                MapInsert(MapInsert(EmptyMap, "log", new_from_value(log.value)),
                                          "error", new_from_value(error.value)),
                                TRUE, None))
        properties ==
            MapInsert(MapInsert(MapInsert(MapInsert(MapInsert(EmptyMap,
                "Infinity", new_from_value(Infinity)),
                "NaN", new_from_value(NaN)),
                "undefined", new_from_value(Undefined)),
                "isFinite", build(is_finite.value)),
                "console", build(Object(console.id, "Object")))
        global_object == heap_add(console.st,
                                  OrdinaryObject_new(properties, TRUE,
                                                     Some(st.object_proto_id)))
    IN  new_variable(global_object.st, GLOBAL_THIS_NAME, FALSE,
                     Object(global_object.id, "Object"))

\* Interpreter::setup
setup(st) == create_global_object(st)


\* ------------------------------------------------------------------------
\* Parser (parser.rs), as far as it acts on the interpreter: an object
\* literal is turned into a Literal of an object the parser creates, with the
\* value expressions evaluated while parsing
\* ------------------------------------------------------------------------
\* the object literal { key: value, ... } as the parser meets it
new_object_literal(properties) == [e |-> "ObjectLiteral", properties |-> properties]

\* JSValue::new_object with JSObject::new_ordinary_object
new_object(p) ==
    Ret(heap_add(p.st, OrdinaryObject_new(p.properties, TRUE, None)).st,
        Ok(Object(heap_add(p.st, OrdinaryObject_new(p.properties, TRUE, None)).id,
                  "Object")))

\* Parser::handle_primaries, Kind::LeftCurly (parser.rs:467-504): the loop
\* over the properties evaluates every value expression with the
\* interpreter.  The values of the literals of the model are literals and
\* identifiers, whose evaluation returns no error
RECURSIVE object_properties(_, _, _, _)
object_property(properties, i, acc, o) ==
    object_properties(properties, i + 1, o.st,
                      MapInsert(acc, properties[i].key, new_from_value(o.r.value)))

object_properties(properties, i, st, acc) ==
    IF i > Len(properties) THEN new_object([st |-> st, properties |-> acc])
    ELSE object_property(properties, i, acc, Expr_evaluate(properties[i].value, st))

\* Parser::parse (parser.rs:38-54) over the statements from the i-th on:
\* the statements parsed and the interpreter after parsing
RECURSIVE Parser_parse(_, _, _, _)
parse_variable(program, i, acc, o) ==
    Parser_parse(program, i + 1, o.st,
                 Append(acc, [program[i] EXCEPT
                                 !.initializer = Some(new_literal(o.r.value))]))

Parser_parse(program, i, st, acc) ==
    IF i > Len(program) THEN [st |-> st, statements |-> acc]
    ELSE IF program[i].s = "VariableDecl" /\ IsSome(program[i].initializer)
            /\ Unwrap(program[i].initializer).e = "ObjectLiteral"
    THEN parse_variable(program, i, acc,
             object_properties(Unwrap(program[i].initializer).properties, 1, st,
                               EmptyMap))
    ELSE Parser_parse(program, i + 1, st, Append(acc, program[i]))


\* ------------------------------------------------------------------------
\* The programs handed to Interpreter::interpret, as the statement lists the
\* parser produces for them; Parser_parse does what is left to do, on the
\* object literals
\* ------------------------------------------------------------------------
\* Programs is the set of the inputs; the names before IN abbreviate the
\* constructors of expr.rs and stmt.rs
Programs ==
    LET
        Id(name) == new_identifier(name)
        Num(n) == new_literal(Number(n))
        Str(body) == new_literal(String(Quoted(body)))
        Bool(b) == new_literal(Boolean(b))
        Assign(name, expr) == new_assignment(Id(name), expr)
        Let(name, expr) == new_variable_stmt(TRUE, Id(name), Some(expr))
        Const(name, expr) == new_variable_stmt(FALSE, Id(name), Some(expr))
        Do(expr) == new_expression(expr)
        Lt(l, r) == new_binary("LessThan", l, r)
        Plus(l, r) == new_binary("Plus", l, r)
        Call(callee, args) == new_function_call(callee, args)
        Member(object, key) == new_object_call(new_literal(String(key)), Id(object))

        \* let x = 0; const c = 1; c = 2; x = c; u = 1; x = u;
        ProgAssign ==
            << Let("x", Num(0)), Const("c", Num(1)), Do(Assign("c", Num(2))),
               Do(Assign("x", Id("c"))), Do(Assign("u", Num(1))), Do(Assign("x", Id("u"))) >>

        \* let x = 0; { let y = 1; x = y; } { const d = 1; d = 2; x = 5; } { break; }
        ProgBlock ==
            << Let("x", Num(0)),
               new_block(<< Let("y", Num(1)), Do(Assign("x", Id("y"))) >>),
               new_block(<< Const("d", Num(1)), Do(Assign("d", Num(2))),
                            Do(Assign("x", Num(5))) >>),
               new_block(<< Stmt_Break >>) >>

        \* let x = 1; if (x) { x = 2; } if (x < 0) x = 3; else x = 4; if (x < 0) x = 5;
        \* if (x) continue;
        ProgIf ==
            << Let("x", Num(1)),
               new_if(Id("x"), new_block(<< Do(Assign("x", Num(2))) >>), None),
               new_if(Lt(Id("x"), Num(0)), Do(Assign("x", Num(3))),
                      Some(Do(Assign("x", Num(4))))),
               new_if(Lt(Id("x"), Num(0)), Do(Assign("x", Num(5))), None),
               new_if(Id("x"), Stmt_Continue, None) >>

        \* let x = 0; const c = 1; while (x < 2) { x = x + 1; c = 0; }
        \* while (x < 4) { x = x + 1; if (x < 4) continue; break; }
        ProgWhile ==
            << Let("x", Num(0)), Const("c", Num(1)),
               new_while(Lt(Id("x"), Num(2)),
                         new_block(<< Do(Assign("x", Plus(Id("x"), Num(1)))),
                                      Do(Assign("c", Num(0))) >>)),
               new_while(Lt(Id("x"), Num(4)),
                         new_block(<< Do(Assign("x", Plus(Id("x"), Num(1)))),
                                      new_if(Lt(Id("x"), Num(4)), Stmt_Continue, None),
                                      Stmt_Break >>)) >>

        \* const c = 1; let x = 0; for (let i = 0; i < 2; i = i + 1) { c = 0; x = i; }
        \* for (;;) { x = x + 1; if (x < 2) continue; break; }
        ProgFor ==
            << Const("c", Num(1)), Let("x", Num(0)),
               new_for(Some(Let("i", Num(0))), Some(Lt(Id("i"), Num(2))),
                       Some(Assign("i", Plus(Id("i"), Num(1)))),
                       new_block(<< Do(Assign("c", Num(0))), Do(Assign("x", Id("i"))) >>)),
               new_for(None, None, None,
                       new_block(<< Do(Assign("x", Plus(Id("x"), Num(1)))),
                                    new_if(Lt(Id("x"), Num(2)), Stmt_Continue, None),
                                    Stmt_Break >>)) >>

        \* let n = 0; function h() { while (n < 2) { n = n + 1; return 1; } }
        \* let x = h();
        ProgLoopReturn ==
            << Let("n", Num(0)),
               new_function(Id("h"), << >>,
                   new_block(<< new_while(Lt(Id("n"), Num(2)),
                                    new_block(<< Do(Assign("n", Plus(Id("n"), Num(1)))),
                                                 new_return(Some(Num(1))) >>)) >>)),
               Let("x", Call(Id("h"), << >>)) >>

        \* let x = 0; let y = 0; false && (x = 1); true || (y = 2);
        \* let p = 0 || 1; let q = 1 && 0;
        ProgLogical ==
            << Let("x", Num(0)), Let("y", Num(0)),
               Do(new_binary("LogicalAnd", Bool(FALSE), new_grouping(Assign("x", Num(1))))),
               Do(new_binary("LogicalOr", Bool(TRUE), new_grouping(Assign("y", Num(2))))),
               Let("p", new_binary("LogicalOr", Num(0), Num(1))),
               Let("q", new_binary("LogicalAnd", Num(1), Num(0))) >>

        \* let x = 0; let y = 0; let k = 0; function f(a, b) { return a; }
        \* (k = f)(x = 1, y = 2); f(x = 3, y = x);
        ProgCall ==
            << Let("x", Num(0)), Let("y", Num(0)), Let("k", Num(0)),
               new_function(Id("f"), << Id("a"), Id("b") >>,
                            new_block(<< new_return(Some(Id("a"))) >>)),
               Do(Call(new_grouping(Assign("k", Id("f"))),
                       << Assign("x", Num(1)), Assign("y", Num(2)) >>)),
               Do(Call(Id("f"), << Assign("x", Num(3)), Assign("y", Id("x")) >>)) >>

        \* function f(r) { if (r) { f(0); } return r; }  let x = f(1);
        ProgRecursion ==
            << new_function(Id("f"), << Id("r") >>,
                   new_block(<< new_if(Id("r"),
                                       new_block(<< Do(Call(Id("f"), << Num(0) >>)) >>),
                                       None),
                                new_return(Some(Id("r"))) >>)),
               Let("x", Call(Id("f"), << Num(1) >>)) >>

        \* let k = 0; { let s = 1; function g() { return s; } k = g; s = 2; }
        \* let x = k();
        ProgClosure ==
            << Let("k", Num(0)),
               new_block(<< Let("s", Num(1)),
                            new_function(Id("g"), << >>,
                                         new_block(<< new_return(Some(Id("s"))) >>)),
                            Do(Assign("k", Id("g"))),
                            Do(Assign("s", Num(2))) >>),
               Let("x", Call(Id("k"), << >>)) >>

        \* let x = 1; console.log(x); console.error('a'); let b = isFinite(x);
        ProgConsole ==
            << Let("x", Num(1)),
               Do(Call(Member("console", "log"), << Id("x") >>)),
               Do(Call(Member("console", "error"), << Str("a") >>)),
               Let("b", Call(Id("isFinite"), << Id("x") >>)) >>
        \* let x = 1; let x = 2; const x = 3;
        \* { let y = 1; if (y) { y = 3; } let y = 4; }  let x = 5;
        ProgRedeclare ==
            << Let("x", Num(1)), Let("x", Num(2)), Const("x", Num(3)),
               new_block(<< Let("y", Num(1)),
                            new_if(Id("y"), new_block(<< Do(Assign("y", Num(3))) >>), None),
                            Let("y", Num(4)) >>),
               Let("x", Num(5)) >>

        \* let s = 0; let t = 0; for (let i = 0; i < 3; s = s + 1) { t = t + 1; break; }
        \* for (let j = 0; j < 2; j = j + 1) { for (;;) { break; } continue; }
        ProgForBreak ==
            << Let("s", Num(0)), Let("t", Num(0)),
               new_for(Some(Let("i", Num(0))), Some(Lt(Id("i"), Num(3))),
                       Some(Assign("s", Plus(Id("s"), Num(1)))),
                       new_block(<< Do(Assign("t", Plus(Id("t"), Num(1)))), Stmt_Break >>)),
               new_for(Some(Let("j", Num(0))), Some(Lt(Id("j"), Num(2))),
                       Some(Assign("j", Plus(Id("j"), Num(1)))),
                       new_block(<< new_for(None, None, None,
                                            new_block(<< Stmt_Break >>)),
                                    Stmt_Continue >>)) >>

        \* let number = 5; console.log(typeof 1); console.error(typeof number);
        \* console.log('a'); console.log();
        ProgPrint ==
            << Let("number", Num(5)),
               Do(Call(Member("console", "log"), << new_unary("Typeof", Num(1)) >>)),
               Do(Call(Member("console", "error"),
                       << new_unary("Typeof", Id("number")) >>)),
               Do(Call(Member("console", "log"), << Str("a") >>)),
               Do(Call(Member("console", "log"), << >>)) >>

        \* let x = 1; let o = { a: x, b: 2 };
        ProgObject ==
            << Let("x", Num(1)),
               Let("o", new_object_literal(<< [key |-> "a", value |-> Id("x")],
                                              [key |-> "b", value |-> Num(2)] >>)) >>

        \* let v = 5; v(); let w = 1;
        ProgCallNumber ==
            << Let("v", Num(5)), Do(Call(Id("v"), << >>)), Let("w", Num(1)) >>

        \* let p = 5; function g(p) { return p; } function g() { return 1; }
        \* let y = g(2);
        ProgShadow ==
            << Let("p", Num(5)),
               new_function(Id("g"), << Id("p") >>,
                            new_block(<< new_return(Some(Id("p"))) >>)),
               new_function(Id("g"), << >>,
                            new_block(<< new_return(Some(Num(1))) >>)),
               Let("y", Call(Id("g"), << Num(2) >>)) >>

        \* let o = { a: 1 }; o.a = 2; o.a = 2; o.b = 3; let z = o.c;
        \* expr.rs reads the key of obj.key from the field expr and the object
        \* from the field identifier (expr.rs:305-307), and assigns with the
        \* object taken from expr and the key from identifier (expr.rs:224-227):
        \* the first assignment is built as a read is, the next two the other
        \* way round
        ProgProperty ==
            << Let("o", new_object_literal(<< [key |-> "a", value |-> Num(1)] >>)),
               Do(new_assignment(Member("o", "a"), Num(2))),
               Do(new_assignment(new_object_call(Id("o"), new_literal(String("a"))),
                                 Num(2))),
               Do(new_assignment(new_object_call(Id("o"), new_literal(String("b"))),
                                 Num(3))),
               Let("z", Member("o", "c")) >>

        \* let o = { a: 1 }; let q = { a: 1 }; let s = o === q; let n = o !== q;
        \* let t = o === o;
        \* isFinite(1 == '1', '1' == 1, null == undefined, o == null, null == o,
        \*          true == 1, 1 == true, isFinite == null, 'a' == 'a', o == q,
        \*          o == 1, isFinite == 'a');
        ProgEquality ==
            << Let("o", new_object_literal(<< [key |-> "a", value |-> Num(1)] >>)),
               Let("q", new_object_literal(<< [key |-> "a", value |-> Num(1)] >>)),
               Let("s", new_binary("EqualEqualEqual", Id("o"), Id("q"))),
               Let("n", new_binary("NotEqualEqual", Id("o"), Id("q"))),
               Let("t", new_binary("EqualEqualEqual", Id("o"), Id("o"))),
               Do(Call(Id("isFinite"),
                       << new_binary("EqualEqual", Num(1), Str("1")),
                          new_binary("EqualEqual", Str("1"), Num(1)),
                          new_binary("EqualEqual", new_literal(Null), Id("undefined")),
                          new_binary("EqualEqual", Id("o"), new_literal(Null)),
                          new_binary("EqualEqual", new_literal(Null), Id("o")),
                          new_binary("EqualEqual", Bool(TRUE), Num(1)),
                          new_binary("EqualEqual", Num(1), Bool(TRUE)),
                          new_binary("EqualEqual", Id("isFinite"), new_literal(Null)),
                          new_binary("EqualEqual", Str("a"), Str("a")),
                          new_binary("EqualEqual", Id("o"), Id("q")),
                          new_binary("EqualEqual", Id("o"), Num(1)),
                          new_binary("EqualEqual", Id("isFinite"), Str("a")) >>)) >>

        \* let v = 'a' + 'b'; let n = 'x' + 1; let w = "it's" + 'x';
        ProgConcat ==
            << Let("v", new_binary("Plus", Str("a"), Str("b"))),
               Let("n", new_binary("Plus", Str("x"), Num(1))),
               Let("w", new_binary("Plus", new_literal(String("\"it's\"")), Str("x"))) >>

        \* for (let i = 0; i < 3; i = i + 1) { }
        \* for (let i = 0; i < 101; i = i + 1) { }
        ProgLongFor ==
            << new_for(Some(Let("i", Num(0))), Some(Lt(Id("i"), Num(3))),
                       Some(Assign("i", Plus(Id("i"), Num(1)))), new_block(<< >>)),
               new_for(Some(Let("i", Num(0))), Some(Lt(Id("i"), Num(AbortLimit + 1))),
                       Some(Assign("i", Plus(Id("i"), Num(1)))), new_block(<< >>)) >>

    IN  { ProgAssign, ProgBlock, ProgIf, ProgWhile, ProgFor, ProgLoopReturn,
          ProgLogical, ProgCall, ProgRecursion, ProgClosure, ProgConsole,
          ProgRedeclare,
          ProgForBreak,
          ProgPrint,
          ProgObject,
          ProgCallNumber,
          ProgShadow,
          ProgProperty,
          ProgEquality,
          ProgConcat,
          ProgLongFor }

\* ------------------------------------------------------------------------
\* Lexer (lexer.rs) and Interpreter::lex (lib.rs:95-110).  A source is a
\* sequence of characters; NUL stands for the '\0' that next_char yields
\* past the end of the source
\* ------------------------------------------------------------------------
\* Lexer::new and Lexer::lex: the lexer when lex returns.  Of the letters
\* the sources of the model use a, b, x and y, which spell no keyword.  The
\* loop that skips a comment (lexer.rs:132-134) never ends when no newline
\* follows: diverges records that
lex(source) ==
    LET NUL == "NUL"
        Digits == {"0", "1", "2", "3", "4", "5", "6", "7", "8", "9"}
        Letters == {"a", "b", "x", "y"}
        Whitespace == {" ", "\t", "\n"}
        Punctuation == ("." :> "Dot") @@ (":" :> "Colon") @@ ("(" :> "LeftParen")
                       @@ (")" :> "RightParen") @@ ("{" :> "LeftCurly")
                       @@ ("}" :> "RightCurly") @@ (";" :> "Semicolon")
                       @@ ("," :> "Comma") @@ ("[" :> "LeftSquare")
                       @@ ("]" :> "RightSquare") @@ ("%" :> "Percent")
        Cur(lx) == IF lx.current_column < Len(source)
                   THEN source[lx.current_column + 1] ELSE NUL
        Peek(lx) == IF lx.current_column + 1 < Len(source)
                    THEN source[lx.current_column + 2] ELSE NUL
        next_char(lx) == [lx EXCEPT !.current_column = @ + 1]
        add_token(lx, kind) ==
            [lx EXCEPT !.tokens = Append(@, [kind |-> kind, line |-> lx.line,
                                             start |-> lx.start,
                                             end |-> lx.current_column])]
        add_token_and_advance(lx, kind) == add_token(next_char(lx), kind)
        RECURSIVE find_next_gap(_)
        find_next_gap(lx) ==
            IF Cur(next_char(lx)) \in Whitespace \cup {NUL} THEN next_char(lx)
            ELSE find_next_gap(next_char(lx))
        report_error(lx, message) ==
            find_next_gap([lx EXCEPT !.errors = Append(@, [message |-> message,
                                                           line |-> lx.line,
                                                           column |-> lx.start]),
                                     !.had_error = TRUE])
        RECURSIVE number(_)
        number(lx) ==
            IF Cur(lx) \in Digits \cup {".", "_"} THEN number(next_char(lx))
            ELSE add_token(lx, "Number")
        \* 'a'..='z' | '_' | '0'..'9': the range of the digits excludes 9
        RECURSIVE identifier(_)
        identifier(lx) ==
            IF Cur(lx) \in Letters \cup {"_"} \cup (Digits \ {"9"})
            THEN identifier(next_char(lx))
            ELSE add_token(lx, "Identifier")
        string_end(lx) ==
            IF ~lx.had_error THEN next_char(add_token(lx, "String")) ELSE lx
        RECURSIVE string_body(_, _, _)
        string_body(lx, terminator, string) ==
            IF Cur(lx) = terminator THEN string_end(lx)
            ELSE IF Cur(lx) = NUL
            THEN report_error(lx, "Improperly terminated string: " \o string)
            ELSE IF Cur(lx) = "\\" /\ Peek(lx) = "\n"
            THEN string_end(report_error(lx, "Improperly terminated string: " \o string))
            ELSE string_body(next_char(lx), terminator, string \o Cur(lx))
        lex_string(lx, terminator) ==
            string_body([lx EXCEPT !.current_column = @ + 1,
                                   !.start = lx.current_column + 1],
                        terminator, "")
        RECURSIVE comment(_)
        comment(lx) ==
            IF Cur(lx) = "\n" THEN next_char([lx EXCEPT !.line = @ + 1])
            ELSE IF Cur(lx) = NUL THEN [lx EXCEPT !.diverges = TRUE]
            ELSE comment(next_char(lx))
        one(lx, kind) == add_token_and_advance(lx, kind)
        two(lx, kind) == add_token_and_advance(next_char(lx), kind)
        three(lx, kind) == add_token_and_advance(next_char(next_char(lx)), kind)
        operator(lx) ==
            CASE Cur(lx) = "+" -> IF Peek(lx) = "+" THEN two(lx, "PlusPlus")
                                  ELSE IF Peek(lx) = "=" THEN two(lx, "PlusEquals")
                                  ELSE one(lx, "Plus")
              [] Cur(lx) = "-" -> IF Peek(lx) = "-" THEN two(lx, "MinusMinus")
                                  ELSE IF Peek(lx) = "=" THEN two(lx, "MinusEquals")
                                  ELSE one(lx, "Minus")
              [] Cur(lx) = "*" -> IF Peek(lx) = "=" THEN two(lx, "StarEquals")
                                  ELSE one(lx, "Star")
              [] Cur(lx) = "/" -> IF Peek(lx) = "/" THEN comment(lx)
                                  ELSE IF Peek(lx) = "=" THEN two(lx, "SlashEquals")
                                  ELSE one(lx, "Slash")
              [] Cur(lx) = "=" -> IF Peek(lx) = "="
                                  THEN IF Peek(next_char(lx)) = "="
                                       THEN three(lx, "EqualEqualEqual")
                                       ELSE two(lx, "EqualEqual")
                                  ELSE IF Peek(lx) = ">" THEN two(lx, "Arrow")
                                  ELSE one(lx, "Equals")
              [] Cur(lx) = "!" -> IF Peek(lx) = "=" THEN two(lx, "NotEqual")
                                  ELSE one(lx, "Bang")
              [] Cur(lx) = "<" -> IF Peek(lx) = "=" THEN two(lx, "LessThanOrEquals")
                                  ELSE one(lx, "LessThan")
              [] Cur(lx) = ">" -> IF Peek(lx) = "=" THEN two(lx, "GreaterThanOrEquals")
                                  ELSE one(lx, "GreaterThan")
        token(lx) ==
            CASE Cur(lx) \in Digits -> number(lx)
              [] Cur(lx) \in Letters -> identifier(lx)
              [] Cur(lx) = "\"" -> lex_string(lx, "\"")
              [] Cur(lx) = "'" -> lex_string(lx, "'")
              [] Cur(lx) = "\n" -> next_char([lx EXCEPT !.line = @ + 1])
              [] Cur(lx) \in {" ", "\t"} -> next_char(lx)
              [] Cur(lx) \in DOMAIN Punctuation ->
                     add_token_and_advance(lx, Punctuation[Cur(lx)])
              [] Cur(lx) \in {"+", "-", "*", "/", "=", "!", "<", ">"} -> operator(lx)
              [] OTHER -> report_error(lx, "Unhandled character: '" \o Cur(lx) \o "'")
        RECURSIVE loop(_)
        loop(lx) ==
            IF lx.diverges THEN lx
            ELSE IF Cur(lx) = NUL THEN add_token(lx, "Eof")
            ELSE loop(token([lx EXCEPT !.start = lx.current_column]))
    IN  loop([current_column |-> 0, errors |-> << >>, had_error |-> FALSE,
              line |-> 1, start |-> 0, tokens |-> << >>, diverges |-> FALSE])

\* Lexer::had_errors
had_errors(lexer) == Len(lexer.errors) > 0

\* Lexer::replay_errors: the lines eprintln! writes, one per LexerError
replay_errors(lexer) ==
    [i \in 1..Len(lexer.errors) |->
        "[ERROR:LEXER]: " \o lexer.errors[i].message \o " at line "
        \o DecStr(lexer.errors[i].line) \o ", column: "
        \o DecStr(lexer.errors[i].column)]

\* a lex that fails only when the lexer produced no token before the Eof
Interpreter_lex_lenient(source) ==
    IF had_errors(lex(source)) /\ Len(lex(source).tokens) = 1
    THEN [ok |-> FALSE, error |-> "Lexer failure. Aborting",
          stderr |-> replay_errors(lex(source))]
    ELSE [ok |-> TRUE, tokens |-> lex(source).tokens, stderr |-> << >>]

\* Interpreter::lex: the tokens, or the error with the lines replayed
Interpreter_lex(source) ==
    IF had_errors(lex(source))
    THEN [ok |-> FALSE, error |-> "Lexer failure. Aborting",
          stderr |-> replay_errors(lex(source))]
    ELSE [ok |-> TRUE, tokens |-> lex(source).tokens, stderr |-> << >>]

\* The sources handed to Interpreter::interpret as text: the empty source, a
\* blank one, one line of comment with and without its newline, and sources
\* the lexer reports an error in
\*    //a\n      //a      #      'a      # 'a'      1 'b' @ x
Sources ==
    { << >>,
      << " " >>,
      << "/", "/", "a", "\n" >>,
      << "/", "/", "a" >>,
      << "#" >>,
      << "'", "a" >>,
      << "#", " ", "'", "a", "'" >>,
      << "1", " ", "'", "b", "'", " ", "@", " ", "x" >> }

\* ------------------------------------------------------------------------
\* The state machine: Interpreter::interpret (lib.rs:69-93) on one interpreter
\* ------------------------------------------------------------------------
VARIABLES
    interp,       \* the Interpreter
    pc,           \* "idle", "running" (inside interpret), "lexing" (inside
                  \* a lex that never returns) or "panicked"
    pending,      \* the statements interpret has not evaluated yet
    prev,         \* the Interpreter before the last statement evaluated
    last,         \* Some([stmt, r]): the last statement and its result
    host_stderr,  \* what eprintln! wrote to the standard error of the process
    ret,          \* what the last interpret returned: Some of Ok((out, err))
                  \* as [ok |-> TRUE, value |-> <<out, err>>], or of Err(e)
                  \* as [ok |-> FALSE, error |-> e]
    calls,        \* the number of interpret calls so far
    source,       \* Some(text): the source of the last interpret call, or
                  \* None when it was the text of one of Programs
    declared      \* the variables the top-level declarations created, as
                  \* [name, id, call]: the variable id, in the call-th interpret

vars == <<interp, pc, pending, prev, last, host_stderr, ret, calls, source,
          declared>>

Init ==
    /\ interp = setup(Interpreter_new)
    /\ pc = "idle"
    /\ pending = << >>
    /\ prev = setup(Interpreter_new)
    /\ last = None
    /\ host_stderr = << >>
    /\ ret = None
    /\ calls = 0
    /\ source = None
    /\ declared = {}

\* the lengths of the two buffers at the beginning of an interpret call
CallBegins(st) ==
    [st EXCEPT !.began = [out |-> Len(st.output_buffer), err |-> Len(st.error_buffer)]]

\* interpret up to the loop: the source is lexed and parsed (lib.rs:70-74);
\* the source is the text of one of Programs, which has no lexical error
InterpretBegin ==
    /\ pc = "idle"
    /\ calls < MaxCalls
    /\ \E program \in Programs :
          /\ pending' = Parser_parse(program, 1, interp, << >>).statements
          /\ interp' = CallBegins([Parser_parse(program, 1, interp, << >>).st
                                        EXCEPT !.log = interp.log])
    /\ pc' = "running"
    /\ calls' = calls + 1
    /\ ret' = None
    /\ source' = None
    /\ UNCHANGED <<prev, last, host_stderr, declared>>

\* interpret up to the loop, the source given as text (lib.rs:70-74): the ?
\* after self.lex() returns the lexer's error; the tokens of a source that
\* is empty or blank are the Eof alone, which parse turns into no statement
\* (parser.rs:38-54).  A lex that never returns leaves the call inside the
\* lexer for ever
InterpretSource ==
    /\ pc = "idle"
    /\ calls < MaxCalls
    /\ \E text \in Sources :
          /\ source' = Some(text)
          /\ IF lex(text).diverges
             THEN pc' = "lexing" /\ ret' = None /\ host_stderr' = host_stderr
             ELSE /\ host_stderr' = host_stderr \o Interpreter_lex(text).stderr
                  /\ IF Interpreter_lex(text).ok
                     THEN pc' = "running" /\ ret' = None
                     ELSE pc' = "idle"
                          /\ ret' = Some([ok |-> FALSE,
                                          error |-> Interpreter_lex(text).error])
    /\ interp' = CallBegins(interp)
    /\ pending' = << >>
    /\ calls' = calls + 1
    /\ UNCHANGED <<prev, last, declared>>

\* one turn of the loop over the statements (lib.rs:76-87): an error result
\* is printed with eprintln! and the loop goes on; a panic ends the process
StatementDone(statement, out) ==
    /\ prev' = interp
    /\ interp' = out.st
    /\ last' = Some([stmt |-> statement, r |-> out.r])
    /\ pc' = IF out.r.panic THEN "panicked" ELSE "running"
    /\ pending' = IF out.r.panic THEN << >> ELSE Tail(pending)
    /\ host_stderr' = IF ~out.r.ok /\ ~out.r.panic
                      THEN host_stderr \o <<out.r.error.message, "\n">>
                      ELSE host_stderr
    /\ declared' = IF statement.s = "VariableDecl" /\ out.r.ok
                       /\ statement.identifier.e = "Identifier"
                   THEN declared \cup
                        {[name |-> statement.identifier.string_index,
                          id |-> out.st.heap.map[Top(out.st.environment_stack)]
                                     .handles[statement.identifier.string_index],
                          call |-> calls]}
                   ELSE declared

EvalStatement ==
    /\ pc = "running"
    /\ pending # << >>
    /\ StatementDone(Head(pending),
                     Stmt_evaluate(Head(pending),
                                   [interp EXCEPT !.log = << >>, !.fuel = MaxIter]))
    /\ UNCHANGED <<ret, calls, source>>

\* the end of interpret (lib.rs:89-92): clones of the two buffers
InterpretReturn ==
    /\ pc = "running"
    /\ pending = << >>
    /\ ret' = Some([ok |-> TRUE,
                    value |-> <<interp.output_buffer, interp.error_buffer>>])
    /\ pc' = "idle"
    /\ UNCHANGED <<interp, pending, prev, last, host_stderr, calls, source,
                   declared>>

Next == InterpretBegin \/ InterpretSource \/ EvalStatement \/ InterpretReturn

Spec == Init /\ [][Next]_vars


\* ------------------------------------------------------------------------
\* Reading the evaluation trace
\* ------------------------------------------------------------------------
TheLog == interp.log
Events == 1..Len(TheLog)
IsBegin(i, node) == TheLog[i].ev = "begin" /\ TheLog[i].node = node
IsExpr(i, node) == TheLog[i].ev = "expr" /\ TheLog[i].node = node
IsEnter(i, node) == TheLog[i].ev = "enter" /\ TheLog[i].node = node
IsExit(i, node) == TheLog[i].ev = "exit" /\ TheLog[i].node = node
Count(S) == Cardinality(S)

\* the event that ends the expression evaluation begun at event i
ExprEnd(i) ==
    CHOOSE j \in Events :
        /\ j > i
        /\ IsExpr(j, TheLog[i].node)
        /\ Count({m \in (i + 1)..(j - 1) : IsBegin(m, TheLog[i].node)})
             = Count({m \in (i + 1)..(j - 1) : IsExpr(m, TheLog[i].node)})
        /\ \A k \in (i + 1)..(j - 1) :
             IsExpr(k, TheLog[i].node) =>
                 Count({m \in (i + 1)..(k - 1) : IsBegin(m, TheLog[i].node)})
                   # Count({m \in (i + 1)..(k - 1) : IsExpr(m, TheLog[i].node)})

\* the event that ends the statement evaluation entered at event i
StmtEnd(i) ==
    CHOOSE j \in Events :
        /\ j > i
        /\ IsExit(j, TheLog[i].node)
        /\ Count({m \in (i + 1)..(j - 1) : IsEnter(m, TheLog[i].node)})
             = Count({m \in (i + 1)..(j - 1) : IsExit(m, TheLog[i].node)})
        /\ \A k \in (i + 1)..(j - 1) :
             IsExit(k, TheLog[i].node) =>
                 Count({m \in (i + 1)..(k - 1) : IsEnter(m, TheLog[i].node)})
                   # Count({m \in (i + 1)..(k - 1) : IsExit(m, TheLog[i].node)})

\* the call event of the innermost activation in progress at event k, 0 when
\* event k happens outside every call
Activation(k) ==
    LET open == {c \in 1..(k - 1) :
                    /\ TheLog[c].ev = "call"
                    /\ Count({m \in (c + 1)..(k - 1) : TheLog[m].ev = "call"})
                         = Count({m \in (c + 1)..(k - 1) : TheLog[m].ev = "return"})}
    IN  IF open = {} THEN 0 ELSE CHOOSE c \in open : \A d \in open : d <= c

Abrupt(r) == ~r.ok /\ ~r.panic
Statement == Unwrap(last).stmt
Result == Unwrap(last).r


\* ------------------------------------------------------------------------
\* The claims
\* ------------------------------------------------------------------------
IsLoop(node) == node.s \in {"While", "For"}
LoopControl == {"Break", "Continue"}

\* C1: when the body of a while or for loop raises a completion other than
\* Break or Continue, the loop statement ends with that same completion and
\* the body is not evaluated again
C1_LoopRaisesBodyCompletion ==
    \A i \in Events :
        (TheLog[i].ev = "enter" /\ IsLoop(TheLog[i].node)) =>
            LET body == TheLog[i].node.body
                j == StmtEnd(i)
            IN  \A k \in (i + 1)..(j - 1) :
                    (/\ IsExit(k, body)
                     /\ Abrupt(TheLog[k].r)
                     /\ TheLog[k].r.error.kind \notin LoopControl)
                    => /\ TheLog[j].r = TheLog[k].r
                       /\ \A m \in (k + 1)..(j - 1) : ~IsEnter(m, body)

\* C2: the environment stack after the evaluation of a Block is the stack
\* before it, however the evaluation ends
C2_BlockRestoresStack ==
    \A j \in Events :
        (TheLog[j].ev = "exit" /\ TheLog[j].node.s = "Block") =>
            TheLog[j].after = TheLog[j].before

\* C3: the environment stack after the evaluation of an If is the stack
\* before it, whichever branch is taken and however it ends
C3_IfRestoresStack ==
    \A j \in Events :
        (TheLog[j].ev = "exit" /\ TheLog[j].node.s = "If") =>
            TheLog[j].after = TheLog[j].before

InBuffer(message, buffer) == \E i \in 1..Len(buffer) : buffer[i] = message

\* C4: the message of an error completion that ends a top-level statement is
\* appended to the error buffer, and the stderr returned by that interpret
\* call contains it
C4_UncaughtErrorInErrorBuffer ==
    (IsSome(last) /\ Abrupt(Result) /\ Result.error.kind = "Normal") =>
        /\ interp.error_buffer = prev.error_buffer \o <<Result.error.message, "\n">>
        /\ (IsSome(ret) /\ Unwrap(ret).ok) =>
               InBuffer(Result.error.message, Unwrap(ret).value[2])


IsLogical(node) == node.e = "Binary" /\ node.operator \in {"LogicalAnd", "LogicalOr"}

\* the value the operand node of the expression begun at event i evaluated to:
\* the result of its first evaluation after event i
OperandValue(i, node) ==
    TheLog[CHOOSE k \in Events :
               /\ k > i
               /\ IsExpr(k, node)
               /\ \A m \in (i + 1)..(k - 1) : ~IsExpr(m, node)].r.value

\* the left operand decides a && b when it is falsy and a || b when it is truthy
Decides(operator, left) ==
    IF operator = "LogicalAnd" THEN ~to_boolean(left) ELSE to_boolean(left)

\* C5: in a && b and a || b the right operand is not evaluated when the left
\* operand decides the result, and the result is the deciding operand itself
C5_LogicalShortCircuit ==
    \A i \in Events :
        (TheLog[i].ev = "begin" /\ IsLogical(TheLog[i].node)
         /\ TheLog[ExprEnd(i)].r.ok) =>
            LET node == TheLog[i].node
                j == ExprEnd(i)
                left == OperandValue(i, node.left)
            IN  IF Decides(node.operator, left)
                THEN /\ \A m \in (i + 1)..(j - 1) : ~IsBegin(m, node.right)
                     /\ TheLog[j].r.value = left
                ELSE TheLog[j].r.value = OperandValue(i, node.right)

\* the events in (i, j) that begin an evaluation of node
Begins(i, j, node) == {m \in (i + 1)..(j - 1) : IsBegin(m, node)}

\* C6: in a function call the callee expression is evaluated first, then the
\* arguments, each exactly once, from left to right
C6_CalleeThenArguments ==
    \A i \in Events :
        (TheLog[i].ev = "begin" /\ TheLog[i].node.e = "FunctionCall"
         /\ TheLog[ExprEnd(i)].r.ok) =>
            LET node == TheLog[i].node
                j == ExprEnd(i)
                callee == CHOOSE m \in Begins(i, j, node.identifier) : TRUE
                arg(n) == CHOOSE m \in Begins(i, j, node.arguments[n]) : TRUE
            IN  /\ Count(Begins(i, j, node.identifier)) = 1
                /\ \A n \in 1..Len(node.arguments) :
                       /\ Count(Begins(i, j, node.arguments[n])) = 1
                       /\ ExprEnd(callee) < arg(n)
                       /\ \A m \in 1..(n - 1) : ExprEnd(arg(m)) < arg(n)


Range(seq) == {seq[i] : i \in 1..Len(seq)}

\* event m writes the name: an assignment to it or a declaration of it
Writes(m, name) ==
    \/ /\ TheLog[m].ev = "expr"
       /\ TheLog[m].node.e = "Assignment"
       /\ TheLog[m].node.identifier = new_identifier(name)
    \/ /\ TheLog[m].ev = "exit"
       /\ TheLog[m].node.s \in {"VariableDecl", "FunctionDecl"}
       /\ TheLog[m].node.identifier = new_identifier(name)

\* event k ends the evaluation of an identifier inside a call activation
ReadsInCall(k) ==
    /\ TheLog[k].ev = "expr"
    /\ TheLog[k].node.e = "Identifier"
    /\ Activation(k) # 0

\* C7: every call activation has its own parameter bindings: a formal
\* parameter read in an activation that has not written it resolves to that
\* activation's own argument, also after a nested call has returned
C7_ParametersPerActivation ==
    \A k \in Events :
        ReadsInCall(k) =>
            LET c == Activation(k)
                params == TheLog[c].function.formal_parameters
                args == TheLog[c].args
            IN  \A n \in 1..Len(params) :
                    (/\ params[n] = TheLog[k].node.string_index
                     /\ \A m \in (c + 1)..(k - 1) : ~Writes(m, params[n]))
                    => TheLog[k].r.value
                         = (IF n <= Len(args) THEN args[n] ELSE Undefined)

\* the environment a function object was created in: the top of the
\* environment stack at its declaration
ScopeOf(function) == Top(interp.created[function.environment_id])
Binds(env_id, name) == name \in DOMAIN interp.heap.map[env_id].handles
ValueIn(env_id, name) == interp.heap.map[interp.heap.map[env_id].handles[name]].value

\* C8: a function created in scope S and called after S has left the
\* environment stack still resolves the variables bound in S, to their
\* current values
C8_ClosureSeesDefiningScope ==
    \A k \in Events :
        ReadsInCall(k) =>
            LET c == Activation(k)
                function == TheLog[c].function
                name == TheLog[k].node.string_index
            IN  (/\ function.environment_id \in DOMAIN interp.created
                 /\ name \notin Range(function.formal_parameters)
                 /\ Binds(ScopeOf(function), name)
                 /\ ScopeOf(function) \notin Range(TheLog[c].stack)
                 /\ \A m \in (c + 1)..Len(TheLog) : ~Writes(m, name))
                => TheLog[k].r.value = ValueIn(ScopeOf(function), name)

\* the top-level statement just evaluated is the assignment name = expr
IsAssignmentStatement ==
    /\ IsSome(last)
    /\ Statement.s = "Expression"
    /\ Statement.expr.e = "Assignment"
    /\ Statement.expr.identifier.e = "Identifier"
Target == Statement.expr.identifier.string_index

TypeErrorMessages ==
    { new_const_type_error.message, "TypeError: Assignment to constant variable" }
IsTypeError(r) ==
    Abrupt(r) /\ r.error.kind = "Normal" /\ r.error.message \in TypeErrorMessages

ImmutableVariables(st) ==
    {id \in DOMAIN st.heap.map :
        st.heap.map[id].hv = "Variable" /\ ~st.heap.map[id].is_mutable}

\* C9: an assignment to a const variable raises a TypeError completion, and
\* the value of a variable created immutable never changes
C9_ConstAssignmentIsTypeError ==
    /\ (/\ IsAssignmentStatement
        /\ IsSome(scan_stack(prev, Target))
        /\ Unwrap(scan_stack(prev, Target)) \in ImmutableVariables(prev))
       => IsTypeError(Result)
    /\ \A id \in ImmutableVariables(prev) :
           interp.heap.map[id].value = prev.heap.map[id].value

\* C10: an assignment to an identifier that no environment on the stack binds
\* fails with ReferenceError: variable not initialized and creates no binding
C10_UnboundAssignmentFails ==
    (IsAssignmentStatement /\ ~IsSome(scan_stack(prev, Target))) =>
        /\ Abrupt(Result)
        /\ Result.error.message = "ReferenceError: variable not initialized"
        /\ ~IsSome(scan_stack(interp, Target))


\* the top-level statement just evaluated is a declaration of the name Declared
IsDeclaration(node) == node.s = "VariableDecl" /\ node.identifier.e = "Identifier"
Declared == Statement.identifier.string_index
\* the environment of the top-level statements: the one created by new()
GlobalEnvironment(st) == st.heap.map[st.environment_stack[1]]
IsRedeclaration(r, node) ==
    /\ Abrupt(r)
    /\ r.error.kind = "Normal"
    /\ r.error.message = "SyntaxError: redeclaration of "
                            \o (IF node.is_mutable THEN "let" ELSE "const")
                            \o " " \o node.identifier.string_index

\* C11: a declaration of a name that the current environment already binds
\* fails with a SyntaxError redeclaration error and leaves the binding and
\* its value as they were, for every two declarations of one name among the
\* top-level statements and among the statements of one block
C11_RedeclarationFails ==
    /\ (/\ IsSome(last)
        /\ IsDeclaration(Statement)
        /\ Declared \in DOMAIN GlobalEnvironment(prev).handles)
       => /\ IsRedeclaration(Result, Statement)
          /\ GlobalEnvironment(interp).handles[Declared]
               = GlobalEnvironment(prev).handles[Declared]
          /\ interp.heap.map[GlobalEnvironment(prev).handles[Declared]]
               = prev.heap.map[GlobalEnvironment(prev).handles[Declared]]
    /\ \A i \in Events :
           (TheLog[i].ev = "enter" /\ TheLog[i].node.s = "Block") =>
               LET stmts == TheLog[i].node.stmts
               IN  \A a, b \in 1..Len(stmts) :
                       (/\ a < b
                        /\ IsDeclaration(stmts[a])
                        /\ IsDeclaration(stmts[b])
                        /\ stmts[a].identifier = stmts[b].identifier)
                       => \A k \in (i + 1)..(StmtEnd(i) - 1) :
                              (/\ IsExit(k, stmts[b])
                               /\ \E m \in (i + 1)..(k - 1) :
                                      IsExit(m, stmts[a]) /\ TheLog[m].r.ok)
                              => IsRedeclaration(TheLog[k].r, stmts[b])

\* C12: in a for loop a Break of the body ends the loop without another
\* evaluation of the step expression; a Continue of the body is followed by
\* exactly one evaluation of the step expression and then by the condition;
\* a loop statement never ends with Break or Continue itself
C12_ForBreakAndContinue ==
    \A i \in Events :
        (TheLog[i].ev = "enter" /\ IsLoop(TheLog[i].node)) =>
            LET node == TheLog[i].node
                j == StmtEnd(i)
            IN  /\ ~(Abrupt(TheLog[j].r) /\ TheLog[j].r.error.kind \in LoopControl)
                /\ \A k \in (i + 1)..(j - 1) :
                       (/\ node.s = "For"
                        /\ IsSome(node.state)
                        /\ IsExit(k, node.body)
                        /\ Abrupt(TheLog[k].r))
                       => /\ TheLog[k].r.error.kind = "Break" =>
                                \A m \in (k + 1)..(j - 1) : ~IsBegin(m, Unwrap(node.state))
                          /\ TheLog[k].r.error.kind = "Continue" =>
                                /\ IsBegin(k + 1, Unwrap(node.state))
                                /\ TheLog[ExprEnd(k + 1)].r.ok =>
                                       IF IsSome(node.condition)
                                       THEN IsBegin(ExprEnd(k + 1) + 1, Unwrap(node.condition))
                                       ELSE IsEnter(ExprEnd(k + 1) + 1, node.body)

\* the text of a value in a buffer: its ToString, a string literal without the
\* quotes it is written with
Text(v) == strip_quotes(to_string(interp, v).value)
\* event k is a call of console.log (kind "Log") or console.error ("Error")
IsPrintCall(k, kind) ==
    /\ TheLog[k].ev = "call"
    /\ TheLog[k].function.call.s = "Expression"
    /\ TheLog[k].function.call.expr.e = "PrintExpr"
    /\ TheLog[k].function.call.expr.kind = kind
PrintArgument(k) == IF TheLog[k].args = << >> THEN Undefined ELSE TheLog[k].args[1]
\* what the calls among the first k events are to append to the buffer of kind
RECURSIVE WrittenBetween(_, _, _)
WrittenBetween(i, k, kind) ==
    IF i > k THEN << >>
    ELSE IF i = k
    THEN IF IsPrintCall(k, kind) THEN <<Text(PrintArgument(k)), "\n">> ELSE << >>
    ELSE WrittenBetween(i, (i + k) \div 2, kind)
         \o WrittenBetween((i + k) \div 2 + 1, k, kind)
Written(k, kind) == WrittenBetween(1, k, kind)

\* C13: each call of console.log appends the ToString of its argument value
\* and one newline to the output buffer, each call of console.error does so
\* to the error buffer, and nothing else is written to either buffer
C13_ConsoleWritesToString ==
    IsSome(last) =>
        /\ interp.output_buffer = prev.output_buffer \o Written(Len(TheLog), "Log")
        /\ interp.error_buffer = prev.error_buffer \o Written(Len(TheLog), "Error")


\* ------------------------------------------------------------------------
\* C14
\* ------------------------------------------------------------------------
LexerFailure == [ok |-> FALSE, error |-> "Lexer failure. Aborting"]
HasLexicalError(text) == IsSome(text) /\ had_errors(lex(Unwrap(text)))

\* C14: an interpret call whose source the lexer reports an error in returns
\* Err, evaluates no statement, and leaves the heap, the environment stack
\* and the two buffers as they were before the call
C14_LexicalErrorAborts ==
    [][(calls' # calls /\ HasLexicalError(source')) =>
          /\ ret' = Some(LexerFailure)
          /\ pc' = "idle" /\ pending' = << >> /\ last' = last
          /\ interp'.heap = interp.heap
          /\ interp'.environment_stack = interp.environment_stack
          /\ interp'.output_buffer = interp.output_buffer
          /\ interp'.error_buffer = interp.error_buffer]_vars

\* a call that failed in the lexer after an earlier call added to the heap
\* and wrote to a buffer
C14_Witness ==
    /\ HasLexicalError(source) /\ ret = Some(LexerFailure) /\ pc = "idle"
    /\ calls = 2
    /\ interp.output_buffer # << >>
    /\ interp.heap.counter > setup(Interpreter_new).heap.counter


\* ------------------------------------------------------------------------
\* C15
\* ------------------------------------------------------------------------
Resolves(d) ==
    get_value_from_environment(interp, d.name) = Some(interp.heap.map[d.id].value)

\* C15: in every interpret call after the one whose top-level declaration
\* created it, a variable resolves by its name to its latest assigned value
C15_VariablesPersist ==
    \A d \in declared : (calls > d.call /\ pc # "panicked") => Resolves(d)


\* ------------------------------------------------------------------------
\* C16
\* ------------------------------------------------------------------------
\* the statement holds the Literal of an object that is on the heap: the
\* expressions of its object literal have been evaluated
EvaluatedAtParse(statement) ==
    /\ statement.s = "VariableDecl" /\ IsSome(statement.initializer)
    /\ Unwrap(statement.initializer).e = "Literal"
    /\ Unwrap(statement.initializer).value.t = "Object"
    /\ Unwrap(statement.initializer).value.object_id \in DOMAIN interp.heap.map

\* C16: while a top-level statement has not finished, no expression of a
\* statement after it has been evaluated and no object of such a statement
\* is on the heap
C16_SourceOrder ==
    \A j \in 2..Len(pending) : ~EvaluatedAtParse(pending[j])


\* ------------------------------------------------------------------------
\* C17
\* ------------------------------------------------------------------------
\* the statement calls, by its name, a variable whose value is no function
IsCallOfNonFunction ==
    /\ Statement.s = "Expression" /\ Statement.expr.e = "FunctionCall"
    /\ Statement.expr.arguments = << >>
    /\ Statement.expr.identifier.e = "Identifier"
    /\ IsSome(get_value_from_environment(prev, Statement.expr.identifier.string_index))
    /\ LET callee == Unwrap(get_value_from_environment(
                                prev, Statement.expr.identifier.string_index))
       IN  ~(callee.t = "Object" /\ callee.kind = "Function")

\* C17: a call of a value that is no function object ends in the TypeError
\* "... is not a function" as an error completion; the interpreter does not
\* abort and goes on with the statements after it
C17_CallOfNonFunctionIsTypeError ==
    (IsSome(last) /\ IsCallOfNonFunction) =>
        /\ Result = Err(new_function_type_error(Statement.expr.identifier.string_index))
        /\ pc # "panicked"


\* ------------------------------------------------------------------------
\* C18
\* ------------------------------------------------------------------------
\* the stack has the global environment of Interpreter::new at its bottom
GlobalAtBottom(stack) ==
    Len(stack) > 0 /\ stack[1] = Interpreter_new.environment_stack[1]

\* C18: the environment stack is never empty and its first element is the
\* global environment, between the statements and at every entry to and
\* exit from a statement and every call inside them
C18_GlobalEnvironmentStays ==
    /\ GlobalAtBottom(interp.environment_stack)
    /\ \A i \in Events :
          /\ TheLog[i].ev \in {"enter", "call"} => GlobalAtBottom(TheLog[i].stack)
          /\ TheLog[i].ev = "exit" => GlobalAtBottom(TheLog[i].after)

\* after a statement in which a function left through a Return completion,
\* the call popped its two environments, and a scope stayed behind
C18_Witness ==
    /\ IsSome(last)
    /\ Len(interp.environment_stack) > 1
    /\ \E i \in Events : TheLog[i].ev = "return"
    /\ \E i \in Events : TheLog[i].ev = "exit" /\ ~TheLog[i].r.ok
                         /\ TheLog[i].r.error.kind = "Return"

\* ------------------------------------------------------------------------
\* C19: heap ids
\* ------------------------------------------------------------------------
Kinds == {"Environment", "Variable", "Value", "Object"}
\* the ids the add_* calls of one kind have returned so far
AddedIds(heap, kind) ==
    {heap.added[i].id : i \in {j \in 1..Len(heap.added) : heap.added[j].kind = kind}}
\* the ids looked up: every id handed out so far and two that were never
HeapIds(heap) == 0..(heap.counter + 1)
LookupsMatchAdds(heap) ==
    \A kind \in Kinds : \A id \in HeapIds(heap) :
        IsSome(heap_get(heap, kind, id)) <=> id \in AddedIds(heap, kind)
DistinctIds(heap) ==
    \A i, j \in 1..Len(heap.added) : i # j => heap.added[i].id # heap.added[j].id

\* C19: in every state a lookup get_k(id) succeeds exactly when an earlier
\* add_k call returned id (an absent id and an id of another kind are not
\* found), the ids the add_* calls returned are pairwise distinct, and across
\* every step an id that resolved to a kind still resolves to that kind
C19_HeapIds ==
    /\ [](LookupsMatchAdds(interp.heap) /\ DistinctIds(interp.heap))
    /\ [][\A kind \in Kinds : \A id \in HeapIds(interp.heap) :
             IsSome(heap_get(interp.heap, kind, id))
                 => IsSome(heap_get(interp'.heap, kind, id))]_vars

C19_Witness ==
    /\ pc = "idle"
    /\ calls = 2
    /\ \A kind \in Kinds :
          \E id \in AddedIds(interp.heap, kind) :
              /\ id >= setup(Interpreter_new).heap.counter
              /\ IsSome(heap_get(interp.heap, kind, id))
              /\ \A other \in Kinds \ {kind} : ~IsSome(heap_get(interp.heap, other, id))

\* ------------------------------------------------------------------------
\* C20: the buffers end with a newline
\* ------------------------------------------------------------------------
EndsWithNewline(buffer) == buffer = << >> \/ buffer[Len(buffer)] = "\n"
\* the buffer is made of writes of two pieces each: a message, then a newline
MessageThenNewline(buffer) ==
    /\ Len(buffer) % 2 = 0
    /\ \A i \in 1..Len(buffer) : (i % 2 = 0) <=> (buffer[i] = "\n")

\* C20: between the statements and after every interpret call, the output
\* buffer and the error buffer are each empty or end with a newline, and each
\* is a sequence of writes of one message followed by exactly one newline
C20_BuffersEndWithNewline ==
    \A buffer \in {interp.output_buffer, interp.error_buffer} :
        EndsWithNewline(buffer) /\ MessageThenNewline(buffer)

C20_Witness ==
    /\ pc = "idle"
    /\ calls = 2
    /\ IsSome(ret) /\ Unwrap(ret).ok
    /\ Len(Unwrap(ret).value[1]) >= 4
    /\ Len(Unwrap(ret).value[2]) >= 2
    /\ Unwrap(ret).value[1] = interp.output_buffer

\* ------------------------------------------------------------------------
\* C21: a function declaration binds its name in the declaring environment
\* ------------------------------------------------------------------------
IsFunctionDeclaration ==
    /\ IsSome(last)
    /\ Statement.s = "FunctionDecl"
    /\ Statement.identifier.e = "Identifier"
\* the environment the statement was evaluated in, before and after it
DeclaringId == Top(prev.environment_stack)
HandlesBefore == prev.heap.map[DeclaringId].handles
HandlesAfter == interp.heap.map[DeclaringId].handles
FunctionName == Statement.identifier.string_index
ParameterNames ==
    {Statement.arguments[i].string_index : i \in 1..Len(Statement.arguments)}
\* the value is a function object made by this statement from its body
IsNewFunction(value) ==
    /\ value.t = "Object"
    /\ value.kind = "Function"
    /\ value.object_id \notin DOMAIN prev.heap.map
    /\ interp.heap.map[value.object_id].call = Statement.body
FreshHandles(value) ==
    interp.heap.map[interp.heap.map[value.object_id].environment_id].handles

\* C21: a top-level statement function f(...) {...} evaluated in environment
\* E completes normally and E binds f to the new function object, whatever f resolved
\* to before; E binds no other new name and keeps its other bindings, and the
\* function's fresh environment binds exactly the parameters
C21_FunctionNameBoundInDeclaringEnvironment ==
    IsFunctionDeclaration =>
        /\ Result.ok
        /\ DOMAIN HandlesAfter = DOMAIN HandlesBefore \cup {FunctionName}
        /\ \A name \in DOMAIN HandlesBefore \ {FunctionName} :
              HandlesAfter[name] = HandlesBefore[name]
        /\ FunctionName \in DOMAIN HandlesAfter
        /\ IsNewFunction(interp.heap.map[HandlesAfter[FunctionName]].value)
        /\ DOMAIN FreshHandles(interp.heap.map[HandlesAfter[FunctionName]].value)
             = ParameterNames

\* ------------------------------------------------------------------------
\* C22: the formal parameters are the identifiers of the parameter list
\* ------------------------------------------------------------------------
\* the names written in the parameter list of the function object
WrittenParameters(function) ==
    [i \in 1..Len(interp.written[function.environment_id]) |->
        interp.written[function.environment_id][i].string_index]
IsDeclaredFunction(entry) ==
    /\ entry.hv = "Object"
    /\ entry.shape = "Function"
    /\ entry.environment_id \in DOMAIN interp.written

\* C22: every function object made by a declaration records as formal
\* parameters exactly the identifiers of its parameter list, and inside a
\* call a parameter the activation has not written resolves to the argument
\* of its position, whatever its name resolves to where the function was
\* declared
C22_ParameterNamesAsWritten ==
    /\ \A id \in DOMAIN interp.heap.map :
          IsDeclaredFunction(interp.heap.map[id])
              => interp.heap.map[id].formal_parameters
                   = WrittenParameters(interp.heap.map[id])
    /\ \A k \in Events :
          (ReadsInCall(k) /\ IsDeclaredFunction(TheLog[Activation(k)].function)) =>
              \A n \in 1..Len(WrittenParameters(TheLog[Activation(k)].function)) :
                  (/\ WrittenParameters(TheLog[Activation(k)].function)[n]
                        = TheLog[k].node.string_index
                   /\ \A m \in (Activation(k) + 1)..(k - 1) :
                         ~Writes(m, TheLog[k].node.string_index))
                  => TheLog[k].r.value
                       = (IF n <= Len(TheLog[Activation(k)].args)
                          THEN TheLog[Activation(k)].args[n] ELSE Undefined)

\* ------------------------------------------------------------------------
\* C23, C24: object properties
\* ------------------------------------------------------------------------
IsOperandPair(target, receiver, key) ==
    /\ receiver.e = "Identifier"
    /\ key.e = "Literal"
    /\ key.value.t = "String"
    /\ {target.expr, target.identifier} = {receiver, key}
\* the target obj.key of an assignment, in either order of its two operands
Receiver(target) ==
    IF target.expr.e = "Identifier" THEN target.expr ELSE target.identifier
Key(target) ==
    IF target.expr.e = "Identifier" THEN target.identifier ELSE target.expr
ReceiverValue(st, target) == get_value_from_environment(st, Receiver(target).string_index)
\* the statement just evaluated is obj.key = v, obj an ordinary object and v
\* a literal
IsPropertyAssignment ==
    /\ IsSome(last)
    /\ Statement.s = "Expression"
    /\ Statement.expr.e = "Assignment"
    /\ Statement.expr.identifier.e = "ObjectCall"
    /\ Statement.expr.right.e = "Literal"
    /\ IsOperandPair(Statement.expr.identifier, Receiver(Statement.expr.identifier),
                     Key(Statement.expr.identifier))
    /\ IsSome(ReceiverValue(prev, Statement.expr.identifier))
    /\ is_object(Unwrap(ReceiverValue(prev, Statement.expr.identifier)))
    /\ prev.heap.map[Unwrap(ReceiverValue(prev, Statement.expr.identifier)).object_id]
          .shape = "Ordinary"
AssignedObject ==
    interp.heap.map[Unwrap(ReceiverValue(prev, Statement.expr.identifier)).object_id]
AssignedKey == Key(Statement.expr.identifier).value.data

\* C23: obj.key = v completes normally whether or not the object had the
\* property; afterwards the object has the property with value v and a read
\* of obj.key yields v
C23_PropertyAssignmentStores ==
    IsPropertyAssignment =>
        /\ Result.ok
        /\ AssignedKey \in DOMAIN AssignedObject.properties
        /\ AssignedObject.properties[AssignedKey].value = Statement.expr.right.value
        /\ evaluate_ObjectCall(new_object_call(Key(Statement.expr.identifier),
                                               Receiver(Statement.expr.identifier)),
                               interp).r
             = Ok(Statement.expr.right.value)

\* the statement just evaluated is let z = obj.key, obj an ordinary object
\* without the property and without a prototype
IsAbsentPropertyRead ==
    /\ IsSome(last)
    /\ Statement.s = "VariableDecl"
    /\ IsSome(Statement.initializer)
    /\ Unwrap(Statement.initializer).e = "ObjectCall"
    /\ Unwrap(Statement.initializer).identifier.e = "Identifier"
    /\ Unwrap(Statement.initializer).expr.e = "Literal"
    /\ IsSome(ReceiverValue(prev, Unwrap(Statement.initializer)))
    /\ is_object(Unwrap(ReceiverValue(prev, Unwrap(Statement.initializer))))
    /\ LET obj == prev.heap.map[Unwrap(ReceiverValue(prev,
                                   Unwrap(Statement.initializer))).object_id]
       IN  /\ obj.shape = "Ordinary"
           /\ obj.prototype = None
           /\ Unwrap(Statement.initializer).expr.value.data \notin DOMAIN obj.properties

\* C24: a read of a property that the object does not have and no prototype
\* provides completes normally with Undefined: the interpreter does not
\* abort and the statement is not an error completion
C24_AbsentPropertyIsUndefined ==
    IsAbsentPropertyRead =>
        /\ pc # "panicked"
        /\ Result.ok
        /\ get_value_from_environment(interp, Statement.identifier.string_index)
             = Some(Undefined)

\* ------------------------------------------------------------------------
\* C25, C29: equality
\* ------------------------------------------------------------------------
\* event i begins the evaluation of a binary expression with one of the
\* operators, which went on to apply the operator to two operand values
IsApplication(i, operators) ==
    /\ TheLog[i].ev = "begin"
    /\ TheLog[i].node.e = "Binary"
    /\ TheLog[i].node.operator \in operators
    /\ \E k \in Events : k > i /\ IsExpr(k, TheLog[i].node.left) /\ TheLog[k].r.ok
    /\ \E k \in Events : k > i /\ IsExpr(k, TheLog[i].node.right) /\ TheLog[k].r.ok
LeftValue(i) == OperandValue(i, TheLog[i].node.left)
RightValue(i) == OperandValue(i, TheLog[i].node.right)

\* C25: for two Object values, a === b is true exactly when they carry the
\* same object_id, and a !== b is the negation
C25_ObjectsStrictlyEqualById ==
    \A i \in Events :
        (/\ IsApplication(i, {"EqualEqualEqual", "NotEqualEqual"})
         /\ is_object(LeftValue(i))
         /\ is_object(RightValue(i)))
        => TheLog[ExprEnd(i)].r
             = Ok(Boolean((LeftValue(i).object_id = RightValue(i).object_id)
                          <=> (TheLog[i].node.operator = "EqualEqualEqual")))

\* ------------------------------------------------------------------------
\* C26: string concatenation
\* ------------------------------------------------------------------------
\* the characters a string stands for: what a literal holds between its
\* delimiting quotes, and the whole of a string stored without them
Characters(s) ==
    IF \E pieces \in Spellings : Join(pieces) = s
    THEN Join(SubSeq(Spelling(s), 2, Len(Spelling(s)) - 1))
    ELSE s
\* the spellings of the string literals that stand for the characters
LiteralsOf(characters) == {"'" \o characters \o "'", "\"" \o characters \o "\""}
\* event i begins a + whose operands were evaluated to primitive values of
\* which at least one is a string
IsConcatenation(i) ==
    /\ IsApplication(i, {"Plus"})
    /\ ~is_object(LeftValue(i))
    /\ ~is_object(RightValue(i))
    /\ is_string(LeftValue(i)) \/ is_string(RightValue(i))
StringOf(value) == to_string(interp, value).value

\* C26: a + with a string operand yields the String value that a literal
\* with the characters of ToString(left) followed by those of
\* ToString(right) is interned as: no character is added or removed
C26_ConcatenationKeepsCharacters ==
    \A i \in Events :
        IsConcatenation(i)
        => /\ TheLog[ExprEnd(i)].r.ok
           /\ is_string(TheLog[ExprEnd(i)].r.value)
           /\ TheLog[ExprEnd(i)].r.value.data
                \in LiteralsOf(Characters(StringOf(LeftValue(i)))
                               \o Characters(StringOf(RightValue(i))))

\* ------------------------------------------------------------------------
\* C27: the lexer on comments
\* ------------------------------------------------------------------------
\* the text is one // comment, with or without the newline that ends it
IsLineComment(text) ==
    /\ Len(text) >= 2
    /\ text[1] = "/" /\ text[2] = "/"
    /\ \A k \in 1..(Len(text) - 1) : text[k] # "\n"
\* the call is past the lexer for the text: lex has returned
Lexed(text) == source = Some(text) /\ pc # "lexing"

\* C27: lex returns for every source text, ending with a newline or not;
\* the tokens it returns end in Eof, and a // comment adds no token
C27_LexReturnsTokensEndingInEof ==
    \A text \in Sources :
        source = Some(text)
        => /\ Lexed(text)
           /\ lex(text).tokens # << >>
           /\ lex(text).tokens[Len(lex(text).tokens)].kind = "Eof"
           /\ IsLineComment(text) => Len(lex(text).tokens) = 1

\* ------------------------------------------------------------------------
\* C28: what interpret returns
\* ------------------------------------------------------------------------
\* the pieces pushed onto a buffer since the current interpret call began
WrittenSince(buffer, length) == SubSeq(buffer, length + 1, Len(buffer))
\* the last interpret call has returned Ok((out, err))
CallReturned == pc = "idle" /\ IsSome(ret) /\ Unwrap(ret).ok

\* C28: the two strings an interpret call returns hold the text written
\* during that call, and none of the text written by earlier calls
C28_ReturnsTextOfTheCall ==
    CallReturned
    => /\ Unwrap(ret).value[1] = WrittenSince(interp.output_buffer, interp.began.out)
       /\ Unwrap(ret).value[2] = WrittenSince(interp.error_buffer, interp.began.err)

\* ------------------------------------------------------------------------
\* C29: symmetry of ==
\* ------------------------------------------------------------------------
\* event i begins an a == b that gave a boolean
IsLooseComparison(i) ==
    /\ IsApplication(i, {"EqualEqual"})
    /\ TheLog[ExprEnd(i)].r.ok
\* b == a for the operand values of the a == b begun at event i
Mirrored(i) == is_loosely_equal(interp, RightValue(i), LeftValue(i))

EquivalentWhile(s) ==
    new_block(
        (IF IsSome(s.initializer) THEN <<Unwrap(s.initializer)>> ELSE << >>)
        \o << new_while(IF IsSome(s.condition) THEN Unwrap(s.condition)
                        ELSE new_literal(Boolean(TRUE)),
                        new_block(<<s.body>>
                                  \o (IF IsSome(s.state)
                                      THEN <<new_expression(Unwrap(s.state))>>
                                      ELSE << >>))) >>)
\* that loop evaluated where the for loop was, free to make as many
\* iterations as it takes
WhileOutcome ==
    Stmt_evaluate(EquivalentWhile(Statement),
                  [prev EXCEPT !.log = << >>, !.fuel = AbortLimit + 1])
\* the evaluations of the body a trace holds
BodyEntries(log, body) == {m \in 1..Len(log) : log[m].ev = "enter" /\ log[m].node = body}
BodyExits(log, body) == {m \in 1..Len(log) : log[m].ev = "exit" /\ log[m].node = body}
\* the last statement is a for loop of N iterations that complete normally,
\* after which the condition is falsy: its while loop makes them and ends
IsCountedFor ==
    /\ IsSome(last)
    /\ Statement.s = "For"
    /\ WhileOutcome.r.ok
    /\ \A m \in BodyExits(WhileOutcome.st.log, Statement.body) :
           WhileOutcome.st.log[m].r.ok

\* C30: a for loop of N normally completing iterations, whatever N, completes
\* normally having evaluated its body N times, as many as its while loop
C30_ForLoopIteratesAsWhile ==
    IsCountedFor
    => /\ Result.ok
       /\ Count(BodyEntries(TheLog, Statement.body))
            = Count(BodyEntries(WhileOutcome.st.log, Statement.body))

=============================================================================
